---- MODULE Spec2Model ----
(***************************************************************************)
(* A model of the WepyHDF5 archive (src/wepy/hdf5.py): the run collection  *)
(* and the continuation edge list, the settings store (sparse-field flags, *)
(* field feature shapes and dtypes), the trajectory fields (add, extend,   *)
(* read, contig trace), the record group readers and the open modes.       *)
(***************************************************************************)
EXTENDS Integers, Sequences, FiniteSets, TLC

(* ---------------------------------------------------------------------- *)
(* Bounds of the model                                                     *)
(* ---------------------------------------------------------------------- *)
\* largest number of runs an archive holds in the model
MaxRuns == 3
\* largest number of continuation edges an archive holds in the model
MaxEdges == 2
\* largest number of runs of the other archive given to link_file_runs / join
MaxOtherRuns == 2
\* largest number of continuation edges of that other archive
MaxOtherEdges == 1
\* longest run sequence handed to is_run_contig
MaxContigLen == 3
\* largest number of rows of the sparse_fields dataset
MaxSparseFlags == 3
\* largest dimension a caller declares in a feature shape
MaxDim == 2
\* largest number of frames stored in the trajectories of an archive
MaxFrames == 3
\* largest number of trajectories of a run
MaxTrajs == 1
\* longest list of frames requested from get_traj_field
MaxReadLen == 2
\* largest number of records stored in the record groups of the archive
MaxRecords == 3
\* number of cycles of the trajectory of the sparse round trip
MaxCycles == 10
\* largest number of sparse rows written in the sparse round trip
MaxWritten == 3
\* largest number of cycles of run 0 and of run 1 of the archive a contig
\* trace is read from, and largest number of trajectories of its runs
MaxRun0Cycles == 5
MaxRun1Cycles == 3
MaxSlots == 4
\* simulation manager: cycles of a simulation, walkers of a Manager
MaxSimCycles == 2
MaxWalkers == 2

(* ---------------------------------------------------------------------- *)
(* State                                                                   *)
(* ---------------------------------------------------------------------- *)
VARIABLES
    runs,           \* the keys of the /runs group (run indices in use)
    run_order,      \* history: the run indices in the order they were created
    continuations,  \* /_settings/continuations: sequence of <<continuation_run, base_run>>
    shapes_grp,     \* /_settings/field_feature_shapes: field path -> stored dataset
    dtypes_grp,     \* /_settings/field_feature_dtypes: field path -> stored string
    sparse_fields_ds, \* /_settings/sparse_fields: sequence of field paths
    trajs,          \* <<run_idx, traj_idx>> -> the trajectory group: field path -> stored field
    record_fields_grp, \* /_settings/record_fields: record group key -> field names
    records_grps,   \* <<run_idx, record group key>> -> the datasets of the record group
    decision_grps,  \* run_idx -> the decision group of the run: decision name -> value
    file,           \* what is at the path of the archive: "absent", "empty" (an HDF5
                    \* file without a group) or "archive" (the groups above)
    handle,         \* the WepyHDF5 object: _wepy_mode, _h5py_mode, closed and the
                    \* mode of the h5py file object _h5 while it is open
    sim,            \* the Manager and the frame of its run_simulation: the
                    \* arguments, the locals, the position in the code and
                    \* the calls the reporter has received
    ret             \* the outcome of the last operation: what it was called
                    \* with, the error it raised ("none" if it returned) and its value

graph_vars == <<runs, run_order, continuations>>
settings_vars == <<shapes_grp, dtypes_grp, sparse_fields_ds>>
data_vars == <<trajs, record_fields_grp, records_grps, decision_grps>>
file_vars == <<file, handle>>
vars == <<graph_vars, settings_vars, data_vars, file_vars, sim, ret>>

\* no WepyHDF5 object on the path
NoHandle == [wepy_mode |-> "none", h5py_mode |-> "none", closed |-> TRUE, h5_mode |-> "none"]

\* the object of an archive constructed in mode 'r+' and opened with open()
OpenHandle == [wepy_mode |-> "r+", h5py_mode |-> "r+", closed |-> FALSE, h5_mode |-> "r+"]

\* the walkers of the model: a list of walkers is the sequence of their
\* states
WalkerStates == {0, 1}
Walkers(n) == [1 .. n -> WalkerStates]

\* no Manager: nothing of sim_manager is running
NoManager ==
    [pc |-> "none", init_walkers |-> << >>, n_cycles |-> 0, segment_lengths |-> << >>,
     cycle_idx |-> 0, walkers |-> << >>, new_walkers |-> << >>,
     warped_walkers |-> << >>, resampled_walkers |-> << >>,
     segment_arg |-> << >>, resample_arg |-> << >>, reporter |-> << >>,
     err |-> "none"]

\* Manager(init_walkers, ...): the object after __init__, run_simulation not
\* called
Manager(init_walkers) == [NoManager EXCEPT !.pc = "constructed",
                                           !.init_walkers = init_walkers]

\* an archive on the path and a read-write handle open on it; no Manager
open_archive ==
    /\ file = "archive"
    /\ handle = OpenHandle
    /\ sim = NoManager

\* what h5py raises when a handler reads self._h5: a closed file object
\* refuses every access, and a file without the groups of an archive does
\* not have the key
h5_read_error ==
    IF handle.closed THEN "ValueError"
    ELSE IF file # "archive" THEN "KeyError"
    ELSE "none"

\* what h5py raises when a handler writes through self._h5: a file object
\* of mode 'r' has no write intent
h5_write_error ==
    IF h5_read_error # "none" THEN h5_read_error
    ELSE IF handle.h5_mode = "r" THEN "OSError"
    ELSE "none"

\* a handler left by the exception h5py raised, with nothing written
h5_refused(op, err) ==
    /\ handle # NoHandle
    /\ ret' = [op |-> op, err |-> err]
    /\ UNCHANGED <<graph_vars, settings_vars, data_vars, file_vars, sim>>

\* Python's None, the default of the continue_run keyword
None == -1

\* the integers a caller passes as a run index
RunArgs == 0 .. (MaxRuns - 1)

Range(s) == {s[i] : i \in 1 .. Len(s)}

\* the sequences over S of length at most n
SeqsUpTo(S, n) == UNION {[1 .. k -> S] : k \in 0 .. n}

\* a function extended or overwritten at one key
SetItem(f, k, v) == [x \in DOMAIN f \cup {k} |-> IF x = k THEN v ELSE f[x]]

IsPrefix(s, t) == /\ Len(s) <= Len(t)
                  /\ \A i \in 1 .. Len(s) : s[i] = t[i]

(* ---------------------------------------------------------------------- *)
(* Settings: field feature shapes and dtypes, sparse-field flags           *)
(* ---------------------------------------------------------------------- *)
\* the field paths of the model: two fields with module defaults and one
\* observable
POSITIONS == "positions"
TIME == "time"
RMSD == "observables/rmsd"
FieldPaths == {POSITIONS, TIME, RMSD}

\* default number of spatial dimensions
N_DIMS == 3
\* number of atoms of the topology the archive was created with
NumAtoms == 2

\* the float NaN inside a stored shape dataset (dimensions are never negative)
NaN == -1
\* the string stored for a deferred dtype
NONE_STR == "None"

\* a Python value that is None or a tuple of dimensions
NoneShape == [none |-> TRUE, dims |-> << >>]
Shape(dims) == [none |-> FALSE, dims |-> dims]
\* a Python value that is None or a dtype
NoneDtype == [none |-> TRUE, descr |-> ""]
Dtype(descr) == [none |-> FALSE, descr |-> descr]

\* the shapes and dtypes a caller declares
ShapeArgs == {<< >>, <<1>>, <<MaxDim>>}
DtypeArgs == {"<f8", "<i8"}

\* np.array(shape): the dataset written for a shape; None is written as the
\* dimensionless array holding NaN
shape_dataset(shape) ==
    IF shape.none THEN [ndim |-> 0, data |-> <<NaN>>]
    ELSE [ndim |-> 1, data |-> shape.dims]

\* one entry of the field_feature_shapes property: a dataset all of whose
\* elements are NaN reads as None, any other reads as its contents
read_shape(dset) ==
    IF \A i \in 1 .. Len(dset.data) : dset.data[i] = NaN THEN NoneShape
    ELSE Shape(dset.data)

\* json.dumps(np.dtype(dtype).descr), or NONE_STR for None
dtype_string(dtype) == IF dtype.none THEN NONE_STR ELSE dtype.descr

\* one entry of the field_feature_dtypes property
read_dtype(dt_str) == IF dt_str = NONE_STR THEN NoneDtype ELSE Dtype(dt_str)

\* the field_feature_shapes and field_feature_dtypes properties
field_feature_shapes(grp) == [fp \in DOMAIN grp |-> read_shape(grp[fp])]
field_feature_dtypes(grp) == [fp \in DOMAIN grp |-> read_dtype(grp[fp])]

\* the settings _create_init writes for the sparse_fields kwarg: the module
\* defaults, and None for every sparse field without a shape and dtype
created_settings(sparse_fields_kwarg) ==
    LET defaults == {POSITIONS, TIME}
        default_shape(fp) == IF fp = POSITIONS THEN Shape(<<NumAtoms, N_DIMS>>)
                             ELSE Shape(<<1>>)
        declared == defaults \cup Range(sparse_fields_kwarg)
    IN [sparse_fields_ds |-> sparse_fields_kwarg,
        shapes_grp |-> [fp \in declared |->
                           IF fp \in defaults THEN shape_dataset(default_shape(fp))
                           ELSE shape_dataset(NoneShape)],
        dtypes_grp |-> [fp \in declared |->
                           IF fp \in defaults THEN dtype_string(Dtype("<f8"))
                           ELSE dtype_string(NoneDtype)]]

\* an archive whose settings are those _create_init wrote
create_init_settings(sparse_fields_kwarg) ==
    LET created == created_settings(sparse_fields_kwarg)
    IN /\ sparse_fields_ds = created.sparse_fields_ds
       /\ shapes_grp = created.shapes_grp
       /\ dtypes_grp = created.dtypes_grp

\* an archive without trajectories and record groups: _create_init creates
\* the record_fields group empty
no_run_data ==
    /\ trajs = << >>
    /\ record_fields_grp = << >>
    /\ records_grps = << >>
    /\ decision_grps = << >>

\* _add_sparse_field_flag: warns when the path is already flagged, then
\* resizes the dataset and writes the path in the new last row
add_sparse_field_flag(field_path) ==
    IF h5_write_error # "none" THEN h5_refused("add_sparse_field_flag", h5_write_error)
    ELSE /\ UNCHANGED <<file_vars, sim>>
         /\ Len(sparse_fields_ds) < MaxSparseFlags
         /\ sparse_fields_ds' = Append(sparse_fields_ds, field_path)
         /\ ret' = [op |-> "add_sparse_field_flag", err |-> "none", field_path |-> field_path]
         /\ UNCHANGED <<graph_vars, data_vars, shapes_grp, dtypes_grp>>

\* _set_field_feature_shape: a stored declaration that reads as None is
\* deleted and written again, any other raises; an absent one is created
set_field_feature_shape(field_path, field_feature_shape) ==
    IF h5_write_error # "none" THEN h5_refused("set_field_feature_shape", h5_write_error)
    ELSE /\ UNCHANGED <<file_vars, sim>>
         /\ IF field_path \in DOMAIN field_feature_shapes(shapes_grp)
            THEN IF field_feature_shapes(shapes_grp)[field_path].none
                 THEN /\ shapes_grp' = SetItem(shapes_grp, field_path,
                                               shape_dataset(Shape(field_feature_shape)))
                      /\ ret' = [op |-> "set_field_feature_shape", err |-> "none",
                                 field_path |-> field_path, shape |-> field_feature_shape]
                 ELSE /\ ret' = [op |-> "set_field_feature_shape", err |-> "AttributeError",
                                 field_path |-> field_path, shape |-> field_feature_shape]
                      /\ UNCHANGED shapes_grp
            ELSE /\ shapes_grp' = SetItem(shapes_grp, field_path,
                                          shape_dataset(Shape(field_feature_shape)))
                 /\ ret' = [op |-> "set_field_feature_shape", err |-> "none",
                            field_path |-> field_path, shape |-> field_feature_shape]
         /\ UNCHANGED <<graph_vars, data_vars, dtypes_grp, sparse_fields_ds>>

\* _set_field_feature_dtype: the same for the dtype string
set_field_feature_dtype(field_path, field_feature_dtype) ==
    IF h5_write_error # "none" THEN h5_refused("set_field_feature_dtype", h5_write_error)
    ELSE /\ UNCHANGED <<file_vars, sim>>
         /\ IF field_path \in DOMAIN field_feature_dtypes(dtypes_grp)
            THEN IF field_feature_dtypes(dtypes_grp)[field_path].none
                 THEN /\ dtypes_grp' = SetItem(dtypes_grp, field_path,
                                               dtype_string(Dtype(field_feature_dtype)))
                      /\ ret' = [op |-> "set_field_feature_dtype", err |-> "none",
                                 field_path |-> field_path, dtype |-> field_feature_dtype]
                 ELSE /\ ret' = [op |-> "set_field_feature_dtype", err |-> "AttributeError",
                                 field_path |-> field_path, dtype |-> field_feature_dtype]
                      /\ UNCHANGED dtypes_grp
            ELSE /\ dtypes_grp' = SetItem(dtypes_grp, field_path,
                                          dtype_string(Dtype(field_feature_dtype)))
                 /\ ret' = [op |-> "set_field_feature_dtype", err |-> "none",
                            field_path |-> field_path, dtype |-> field_feature_dtype]
         /\ UNCHANGED <<graph_vars, data_vars, shapes_grp, sparse_fields_ds>>

\* an archive created with or without the observable flagged sparse
InitSettings ==
    /\ open_archive
    /\ runs = {}
    /\ run_order = << >>
    /\ continuations = << >>
    /\ \E sparse_fields_kwarg \in {<< >>, <<RMSD>>} :
           create_init_settings(sparse_fields_kwarg)
    /\ no_run_data
    /\ ret = [op |-> "init", err |-> "none"]

NextSettings ==
    \/ \E field_path \in FieldPaths : add_sparse_field_flag(field_path)
    \/ \E field_path \in FieldPaths, shape \in ShapeArgs :
           set_field_feature_shape(field_path, shape)
    \/ \E field_path \in FieldPaths, dtype \in DtypeArgs :
           set_field_feature_dtype(field_path, dtype)

SpecSettings == InitSettings /\ [][NextSettings]_vars

(* ---------------------------------------------------------------------- *)
(* Trajectories: add_traj and the field read                               *)
(* ---------------------------------------------------------------------- *)
WEIGHTS == "weights"

\* the data of one stored row; rows are told apart by these values only
DataValues == {1, 2}

\* a field stored as one dataset, and a field stored as a group holding the
\* datasets data and _sparse_idxs
Dataset(rows) == [kind |-> "dataset", data |-> rows, sparse_idxs |-> << >>]
SparseGroup(rows, idxs) == [kind |-> "group", data |-> rows, sparse_idxs |-> idxs]

\* an argument that is None or a list of integers
NoList == [none |-> TRUE, idxs |-> << >>]
List(idxs) == [none |-> FALSE, idxs |-> idxs]

\* a row of a result: a row of a masked array that is masked holds the fill
\* value NaN
Present(value) == [masked |-> FALSE, value |-> value]
Absent == [masked |-> TRUE, value |-> NaN]

\* the strictly increasing sequences over 0 .. n-1
RECURSIVE SortedSeq(_)
SortedSeq(S) ==
    IF S = {} THEN << >>
    ELSE LET m == CHOOSE x \in S : \A y \in S : x <= y
         IN <<m>> \o SortedSeq(S \ {m})
IncreasingSeqs(n) == {SortedSeq(S) : S \in SUBSET (0 .. (n - 1))}

\* np.argwhere(np.isin(s, values)): the positions of s whose element is one
\* of values, in increasing order
isin_positions(s, values) == SortedSeq({p \in 1 .. Len(s) : s[p] \in Range(values)})

\* num_run_trajs: the number of trajectory groups of the run
num_run_trajs(tr, run_idx) == Cardinality({k \in DOMAIN tr : k[1] = run_idx})

\* the number of frames stored in the trajectories ks
RECURSIVE num_frames(_, _)
num_frames(tr, ks) ==
    IF ks = {} THEN 0
    ELSE LET k == CHOOSE x \in ks : TRUE
         IN (IF POSITIONS \in DOMAIN tr[k] THEN Len(tr[k][POSITIONS].data) ELSE 0)
            + num_frames(tr, ks \ {k})

\* the loop of add_traj over traj_data: a field with sparse idxs given is
\* stored with them, a field flagged sparse with np.arange(n_frames), any
\* other as one dataset
add_traj_field(field_path, field_data, sparse_idxs_kwarg, n_frames) ==
    IF ~sparse_idxs_kwarg.none THEN SparseGroup(field_data, sparse_idxs_kwarg.idxs)
    ELSE IF field_path \in Range(sparse_fields_ds)
         THEN SparseGroup(field_data, [i \in 1 .. n_frames |-> i - 1])
         ELSE Dataset(field_data)

\* the sparse fields add_traj creates empty: those not in the data whose
\* shape and dtype are both declared (_init_sparse_traj_field skips the rest)
uninit_sparse_fields(given) ==
    {fp \in Range(sparse_fields_ds) \ given :
        /\ ~field_feature_shapes(shapes_grp)[fp].none
        /\ ~field_feature_dtypes(dtypes_grp)[fp].none}

\* add_traj with positions of n_frames frames and, when rmsd_data is not
\* None, the observable; the trajectory group is created before the shape
\* of the positions is checked
add_traj(run_idx, n_frames, positions_shape, rmsd_data, rmsd_sparse_idxs) ==
    IF h5_write_error # "none" THEN h5_refused("add_traj", h5_write_error)
    ELSE /\ UNCHANGED <<file_vars, sim>>
         /\ run_idx \in runs
         /\ num_run_trajs(trajs, run_idx) < MaxTrajs
         /\ num_frames(trajs, DOMAIN trajs) + n_frames <= MaxFrames
         /\ LET traj_idx == num_run_trajs(trajs, run_idx)
                key == <<run_idx, traj_idx>>
                given == IF rmsd_data.none THEN {POSITIONS} ELSE {POSITIONS, RMSD}
                created == {WEIGHTS} \cup given \cup uninit_sparse_fields(given)
                traj_grp == [fp \in created |->
                    IF fp = WEIGHTS THEN Dataset([i \in 1 .. n_frames |-> 1])
                    ELSE IF fp = POSITIONS
                         THEN add_traj_field(POSITIONS, [i \in 1 .. n_frames |-> 1], NoList, n_frames)
                    ELSE IF fp = RMSD /\ ~rmsd_data.none
                         THEN add_traj_field(RMSD, rmsd_data.idxs, rmsd_sparse_idxs, n_frames)
                    ELSE SparseGroup(<< >>, << >>)]
            IN IF positions_shape # <<NumAtoms, N_DIMS>>
               THEN /\ trajs' = SetItem(trajs, key, << >>)
                    /\ ret' = [op |-> "add_traj", err |-> "AssertionError",
                               run_idx |-> run_idx, traj_idx |-> traj_idx]
               ELSE /\ trajs' = SetItem(trajs, key, traj_grp)
                    /\ ret' = [op |-> "add_traj", err |-> "none",
                               run_idx |-> run_idx, traj_idx |-> traj_idx]
         /\ UNCHANGED <<graph_vars, settings_vars, record_fields_grp, records_grps, decision_grps>>

\* _get_contiguous_traj_field: the whole dataset, or the rows of an
\* increasing list of frames
get_contiguous_traj_field(field, frames) ==
    IF field.kind # "dataset" THEN [err |-> "TypeError", val |-> << >>]
    ELSE IF frames.none
    THEN [err |-> "none", val |-> [i \in 1 .. Len(field.data) |-> Present(field.data[i])]]
    ELSE IF \E i \in 1 .. (Len(frames.idxs) - 1) : frames.idxs[i] >= frames.idxs[i + 1]
    THEN [err |-> "TypeError", val |-> << >>]
    ELSE IF \E i \in 1 .. Len(frames.idxs) : frames.idxs[i] >= Len(field.data)
    THEN [err |-> "IndexError", val |-> << >>]
    ELSE [err |-> "none",
          val |-> [q \in 1 .. Len(frames.idxs) |-> Present(field.data[frames.idxs[q] + 1])]]

assign_rows_packed(n, targets, data) ==
    [err |-> "none",
     val |-> [q \in 1 .. n |-> IF q <= Len(data) THEN Present(data[q]) ELSE Absent]]
\* filled_data[index] = data for a boolean or integer index selecting the
\* rows targets (in order): row by row when the counts agree, the single row
\* everywhere when data has one row, an error otherwise; n is the length of
\* the result
assign_rows(n, targets, data) ==
    IF Len(targets) # Len(data) /\ Len(data) # 1
    THEN [err |-> "ValueError", val |-> << >>]
    ELSE [err |-> "none",
          val |-> [q \in 1 .. n |->
              IF q \notin Range(targets) THEN Absent
              ELSE LET last == CHOOSE p \in 1 .. Len(targets) :
                                   /\ targets[p] = q
                                   /\ \A p2 \in 1 .. Len(targets) : targets[p2] = q => p2 <= p
                   IN Present(IF Len(data) = 1 THEN data[1] ELSE data[last])]]

\* _get_sparse_traj_field
get_sparse_traj_field(traj_grp, field_path, frames, masked) ==
    LET field == traj_grp[field_path]
        n_frames == Len(traj_grp[POSITIONS].data)
    IN IF POSITIONS \notin DOMAIN traj_grp THEN [err |-> "KeyError", val |-> << >>]
       ELSE IF field.kind # "group" THEN [err |-> "ValueError", val |-> << >>]
       ELSE IF frames.none
       THEN IF ~masked
            THEN [err |-> "none", val |-> [i \in 1 .. Len(field.data) |-> Present(field.data[i])]]
            ELSE IF \E i \in 1 .. Len(field.sparse_idxs) : field.sparse_idxs[i] >= n_frames
                 THEN [err |-> "IndexError", val |-> << >>]
                 ELSE assign_rows(n_frames,
                                  [i \in 1 .. Len(field.sparse_idxs) |-> field.sparse_idxs[i] + 1],
                                  field.data)
       ELSE LET sparse_frame_idxs == isin_positions(field.sparse_idxs, frames.idxs)
                data == [i \in 1 .. Len(sparse_frame_idxs) |-> field.data[sparse_frame_idxs[i]]]
            IN IF ~masked
               THEN [err |-> "none", val |-> [i \in 1 .. Len(data) |-> Present(data[i])]]
               ELSE assign_rows(Len(frames.idxs),
                                isin_positions(frames.idxs, field.sparse_idxs),
                                data)

\* the body of get_traj_field: a KeyError for a field the trajectory does
\* not hold, otherwise the sparse or the contiguous read as the sparse-field
\* list says
traj_field(traj_grp, field_path, frames, masked) ==
    IF field_path \notin DOMAIN traj_grp
    THEN [err |-> "KeyError", val |-> << >>]
    ELSE IF field_path \in Range(sparse_fields_ds)
    THEN get_sparse_traj_field(traj_grp, field_path, frames, masked)
    ELSE get_contiguous_traj_field(traj_grp[field_path], frames)

\* a call of get_traj_field; the read changes nothing, so one read per
\* behaviour shows every result
get_traj_field(run_idx, traj_idx, field_path, frames, masked) ==
    IF h5_read_error # "none" THEN h5_refused("get_traj_field", h5_read_error)
    ELSE /\ UNCHANGED <<file_vars, sim>>
         /\ ret.op # "get_traj_field"
         /\ <<run_idx, traj_idx>> \in DOMAIN trajs
         /\ LET out == traj_field(trajs[<<run_idx, traj_idx>>], field_path, frames, masked)
            IN ret' = [op |-> "get_traj_field", err |-> out.err, val |-> out.val,
                       run_idx |-> run_idx, traj_idx |-> traj_idx, field_path |-> field_path,
                       frames |-> frames, masked |-> masked]
         /\ UNCHANGED <<graph_vars, settings_vars, data_vars>>

\* the observable data a caller hands to add_traj with positions of
\* n_frames frames: none, one row per frame, or rows with their increasing
\* sparse idxs
RmsdArgs(n_frames) ==
    {<<NoList, NoList>>}
    \cup {<<List(d), NoList>> : d \in [1 .. n_frames -> DataValues]}
    \cup UNION {{<<List(d), List(idxs)>> : d \in [1 .. Len(idxs) -> DataValues]} :
                    idxs \in IncreasingSeqs(n_frames)}

\* an archive created with or without the observable flagged sparse, holding
\* run 0 and no trajectory
InitTraj ==
    /\ open_archive
    /\ runs = {0}
    /\ run_order = <<0>>
    /\ continuations = << >>
    /\ \E sparse_fields_kwarg \in {<< >>, <<RMSD>>} :
           create_init_settings(sparse_fields_kwarg)
    /\ no_run_data
    /\ ret = [op |-> "init", err |-> "none"]

NextTraj ==
    \/ \E n_frames \in 1 .. MaxFrames :
           \E positions_shape \in {<<NumAtoms, N_DIMS>>, <<NumAtoms + 1, N_DIMS>>} :
               \E rmsd \in RmsdArgs(n_frames) :
                   add_traj(0, n_frames, positions_shape, rmsd[1], rmsd[2])
    \/ \E traj_idx \in 0 .. (MaxTrajs - 1) :
           \E field_path \in FieldPaths :
               \E frames \in {NoList} \cup {List(f) : f \in SeqsUpTo(0 .. (MaxFrames - 1), MaxReadLen)} :
                   \E masked \in BOOLEAN :
                       get_traj_field(0, traj_idx, field_path, frames, masked)

SpecTraj == InitTraj /\ [][NextTraj]_vars

(* ---------------------------------------------------------------------- *)
(* Sparse round trip: rows written at sparse idxs, then the full read      *)
(* ---------------------------------------------------------------------- *)
\* the sparse idxs a caller writes rows at in a trajectory of n cycles
WrittenIdxs(n) ==
    {SortedSeq(S) : S \in {T \in SUBSET (0 .. (n - 1)) : Cardinality(T) <= MaxWritten}}

\* an archive with the observable flagged sparse whose run 0 holds one
\* trajectory of MaxCycles cycles, added by add_traj with rows of the
\* observable at sparse idxs
InitRoundTrip ==
    /\ open_archive
    /\ runs = {0}
    /\ run_order = <<0>>
    /\ continuations = << >>
    /\ create_init_settings(<<RMSD>>)
    /\ \E idxs \in WrittenIdxs(MaxCycles) :
           \E rows \in [1 .. Len(idxs) -> DataValues] :
               trajs = [k \in {<<0, 0>>} |->
                   [fp \in {WEIGHTS, POSITIONS, RMSD} |->
                       IF fp = RMSD
                       THEN add_traj_field(RMSD, rows, List(idxs), MaxCycles)
                       ELSE Dataset([i \in 1 .. MaxCycles |-> 1])]]
    /\ record_fields_grp = << >>
    /\ records_grps = << >>
    /\ decision_grps = << >>
    /\ ret = [op |-> "init", err |-> "none"]

NextRoundTrip ==
    \E masked \in BOOLEAN : get_traj_field(0, 0, RMSD, NoList, masked)

SpecRoundTrip == InitRoundTrip /\ [][NextRoundTrip]_vars

(* ---------------------------------------------------------------------- *)
(* Trajectories: extend_traj                                               *)
(* ---------------------------------------------------------------------- *)
\* num_traj_frames / num_run_cycles: the frames of the positions of
\* trajectory 0 of the run
num_traj_frames(tr, run_idx, traj_idx) == Len(tr[<<run_idx, traj_idx>>][POSITIONS].data)
num_run_cycles_none(tr, run_idx) == 0
num_run_cycles(tr, run_idx) == num_traj_frames(tr, run_idx, 0)

OBSERVABLES == "observables"

\* the field paths of the observables group ('/' in field_path and the
\* group name before it is OBSERVABLES); is_observable_any_group leaves the
\* test of the group name out
is_observable_any_group(field_path) == TRUE
is_observable(field_path) == field_path \in {RMSD}

\* the feature shape and dtype of the rows a caller hands in for a field
\* (field_data.shape[1:], field_data.dtype)
data_feature_shape(field_path) ==
    IF field_path = POSITIONS THEN <<NumAtoms, N_DIMS>> ELSE <<1>>
data_feature_dtype(field_path) == "<f8"

\* _init_traj_field: an empty group for a field flagged sparse, an empty
\* dataset for any other
init_traj_field(sparse_fields, field_path) ==
    IF field_path \in Range(sparse_fields) THEN SparseGroup(<< >>, << >>)
    ELSE Dataset(<< >>)

extend_contiguous_traj_field_overwrite(field, field_data) ==
    IF field.kind # "dataset" THEN [err |-> "AttributeError", field |-> field]
    ELSE [err |-> "none",
          field |-> Dataset([i \in 1 .. Len(field.data) |->
                       IF i > Len(field.data) - Len(field_data)
                       THEN field_data[i - (Len(field.data) - Len(field_data))]
                       ELSE field.data[i]])]
\* _extend_contiguous_traj_field: the dataset is resized by the number of
\* new rows and the new rows are written at its end; a group has no shape
extend_contiguous_traj_field(field, field_data) ==
    IF field.kind # "dataset" THEN [err |-> "AttributeError", field |-> field]
    ELSE [err |-> "none", field |-> Dataset(field.data \o field_data)]

extend_sparse_idxs_from_zero(field_sparse_idxs, n_new_frames, sparse_idxs) ==
    [err |-> "none", idxs |-> field_sparse_idxs \o [i \in 1 .. n_new_frames |-> i - 1]]
\* field_sparse_idxs[-n_new_frames:] = sparse_idxs after the resize: the
\* idxs row by row when there are as many as new rows, the one idx in every
\* new row when there is one, an error otherwise
extend_sparse_idxs(field_sparse_idxs, n_new_frames, sparse_idxs) ==
    IF Len(sparse_idxs) = n_new_frames
    THEN [err |-> "none", idxs |-> field_sparse_idxs \o sparse_idxs]
    ELSE IF Len(sparse_idxs) = 1
    THEN [err |-> "none",
          idxs |-> field_sparse_idxs \o [i \in 1 .. n_new_frames |-> sparse_idxs[1]]]
    ELSE [err |-> "TypeError", idxs |-> field_sparse_idxs]

\* _extend_sparse_traj_field: the values are appended to the data dataset
\* of the group, then the idxs to its _sparse_idxs dataset; a dataset has
\* no member named data
extend_sparse_traj_field(field, values, sparse_idxs) ==
    IF field.kind # "group" THEN [err |-> "ValueError", field |-> field]
    ELSE LET idxs == extend_sparse_idxs(field.sparse_idxs, Len(values), sparse_idxs)
         IN [err |-> idxs.err,
             field |-> SparseGroup(field.data \o values, idxs.idxs)]

\* one pass of the loop of extend_traj over traj_data.items(): a field the
\* trajectory does not hold is declared where it has to be and initialised,
\* then the field is extended as a sparse or as a contiguous field;
\* st holds the trajectory group, the settings and the error raised
extend_traj_field(st, field_path, field_data, sparse_idxs) ==
    LET undeclared == /\ field_path \notin DOMAIN st.shapes
                      /\ field_path \notin DOMAIN st.dtypes
                      /\ field_path \notin Range(st.sparse_fields)
        declared_none == /\ field_path \in DOMAIN st.shapes
                         /\ field_path \in DOMAIN st.dtypes
                         /\ read_shape(st.shapes[field_path]).none
                         /\ read_dtype(st.dtypes[field_path]).none
                         /\ field_path \in Range(st.sparse_fields)
        declare == [st EXCEPT
            !.shapes = SetItem(st.shapes, field_path,
                               shape_dataset(Shape(data_feature_shape(field_path)))),
            !.dtypes = SetItem(st.dtypes, field_path,
                               dtype_string(Dtype(data_feature_dtype(field_path))))]
        settled ==
            IF field_path \in DOMAIN st.grp THEN st
            ELSE IF undeclared
            THEN IF is_observable(field_path)
                 THEN [declare EXCEPT !.sparse_fields = Append(st.sparse_fields, field_path)]
                 ELSE [st EXCEPT !.err = "ValueError"]
            ELSE IF field_path \notin DOMAIN st.shapes \/ field_path \notin DOMAIN st.dtypes
            THEN [st EXCEPT !.err = "KeyError"]
            ELSE IF declared_none THEN declare
            ELSE st
        inited ==
            IF settled.err # "none" \/ field_path \in DOMAIN settled.grp THEN settled
            ELSE [settled EXCEPT !.grp = SetItem(settled.grp, field_path,
                                     init_traj_field(settled.sparse_fields, field_path))]
    IN IF inited.err # "none" THEN inited
       ELSE LET extended ==
                    IF field_path \in Range(inited.sparse_fields)
                    THEN extend_sparse_traj_field(inited.grp[field_path], field_data, sparse_idxs)
                    ELSE extend_contiguous_traj_field(inited.grp[field_path], field_data)
            IN [inited EXCEPT !.grp = SetItem(inited.grp, field_path, extended.field),
                              !.err = extended.err]

\* the loop of extend_traj over traj_data.items(), left at the first error
RECURSIVE extend_traj_loop(_, _, _, _)
extend_traj_loop(st, items, data, sparse_idxs) ==
    IF items = << >> \/ st.err # "none" THEN st
    ELSE extend_traj_loop(extend_traj_field(st, Head(items), data[Head(items)], sparse_idxs),
                          Tail(items), data, sparse_idxs)

\* extend_traj with the data of n_new_frames frames for the fields items
\* (positions first): the frames the trajectory has give the new sparse
\* idxs, the weights are extended with ones, then the fields in turn; what
\* was written before an error stays written
extend_traj(run_idx, traj_idx, items, data) ==
    IF h5_write_error # "none" THEN h5_refused("extend_traj", h5_write_error)
    ELSE /\ UNCHANGED <<file_vars, sim>>
         /\ <<run_idx, traj_idx>> \in DOMAIN trajs
         /\ LET key == <<run_idx, traj_idx>>
                traj_grp == trajs[key]
                n_new_frames == Len(data[POSITIONS])
            IN IF POSITIONS \notin DOMAIN traj_grp \/ WEIGHTS \notin DOMAIN traj_grp
               THEN /\ ret' = [op |-> "extend_traj", err |-> "KeyError", run_idx |-> run_idx,
                               traj_idx |-> traj_idx, items |-> items,
                               n_new_frames |-> n_new_frames]
                    /\ UNCHANGED <<trajs, settings_vars>>
               ELSE LET n_frames == num_traj_frames(trajs, run_idx, traj_idx)
                        sparse_idxs == [i \in 1 .. n_new_frames |-> n_frames + i - 1]
                        weighted == SetItem(traj_grp, WEIGHTS,
                                        Dataset(traj_grp[WEIGHTS].data
                                                \o [i \in 1 .. n_new_frames |-> 1]))
                        st == extend_traj_loop([grp |-> weighted,
                                                sparse_fields |-> sparse_fields_ds,
                                                shapes |-> shapes_grp,
                                                dtypes |-> dtypes_grp,
                                                err |-> "none"],
                                               items, data, sparse_idxs)
                    IN /\ num_frames(trajs, DOMAIN trajs) + n_new_frames <= MaxFrames
                       /\ trajs' = SetItem(trajs, key, st.grp)
                       /\ sparse_fields_ds' = st.sparse_fields
                       /\ shapes_grp' = st.shapes
                       /\ dtypes_grp' = st.dtypes
                       /\ ret' = [op |-> "extend_traj", err |-> st.err, run_idx |-> run_idx,
                                  traj_idx |-> traj_idx, items |-> items,
                                  n_new_frames |-> n_new_frames]
         /\ UNCHANGED <<graph_vars, record_fields_grp, records_grps, decision_grps>>

\* the data a caller hands to extend_traj: positions of n_new_frames frames
\* and, for any of the fields time and the observable, one row per new
\* frame; the rows of the positions and of the time are told apart by
\* nothing
\* a field path outside the observables group that create_init_settings
\* declares nothing for
CHARGES == "charges"
ExtendItems == {<<POSITIONS>>, <<POSITIONS, TIME>>, <<POSITIONS, RMSD>>,
                <<POSITIONS, TIME, RMSD>>, <<POSITIONS, CHARGES>>}
ExtendData(items, n_new_frames) ==
    {d \in [Range(items) -> [1 .. n_new_frames -> DataValues]] :
        \A i \in 1 .. n_new_frames :
            \A fp \in Range(items) \ {RMSD} : d[fp][i] = 1}

NextExtend ==
    \/ \E n_frames \in 1 .. MaxFrames :
           \E positions_shape \in {<<NumAtoms, N_DIMS>>, <<NumAtoms + 1, N_DIMS>>} :
               \E rmsd \in RmsdArgs(n_frames) :
                   add_traj(0, n_frames, positions_shape, rmsd[1], rmsd[2])
    \/ \E traj_idx \in 0 .. (MaxTrajs - 1) :
           \E items \in ExtendItems :
               \E n_new_frames \in 1 .. MaxFrames :
                   \E data \in ExtendData(items, n_new_frames) :
                       extend_traj(0, traj_idx, items, data)

SpecExtend == InitTraj /\ [][NextExtend]_vars

(* ---------------------------------------------------------------------- *)
(* Record groups                                                           *)
(* ---------------------------------------------------------------------- *)
RESAMPLING == "resampling"
PROGRESS == "progress"
\* the record group keys of the model: one sporadic, one continual
RecordKeys == {RESAMPLING, PROGRESS}
\* the record groups that carry a _cycle_idxs dataset
SPORADIC_RECORDS == {RESAMPLING}

\* the one record field of each group of the model, of feature shape (1,)
FIELD == "value"

\* the cycle indices a caller passes to extend_cycle_run_group_records
CycleArgs == {0, 1}

\* _is_sporadic_records
is_sporadic_records(run_record_key) == run_record_key \in SPORADIC_RECORDS

\* init_run_record_grp: the group with one empty dataset per field and, for
\* a sporadic group, the empty _cycle_idxs dataset
init_run_record_grp(run_record_key) ==
    [cycle_idxs |-> << >>, columns |-> [f \in {FIELD} |-> << >>]]

\* the number of records stored in the record groups ks
RECURSIVE num_records(_, _)
num_records(grps, ks) ==
    IF ks = {} THEN 0
    ELSE LET k == CHOOSE x \in ks : TRUE
         IN Len(grps[k].columns[FIELD]) + num_records(grps, ks \ {k})

\* the loop of extend_cycle_run_group_records over the records: the feature
\* vector of every field of every record is appended to the field's dataset
RECURSIVE extend_columns(_, _)
extend_columns(columns, fields_data) ==
    IF fields_data = << >> THEN columns
    ELSE LET record_dict == Head(fields_data) IN
         extend_columns([f \in DOMAIN columns |->
                            IF f \in DOMAIN record_dict
                            THEN Append(columns[f], record_dict[f])
                            ELSE columns[f]],
                        Tail(fields_data))

\* extend_cycle_run_group_records: a sporadic group gets cycle_idx once per
\* new record in _cycle_idxs, then every group gets the data of the records
extend_cycle_run_group_records(run_idx, run_record_key, cycle_idx, fields_data) ==
    IF h5_write_error # "none" THEN h5_refused("extend_cycle_run_group_records", h5_write_error)
    ELSE /\ UNCHANGED <<file_vars, sim>>
         /\ <<run_idx, run_record_key>> \in DOMAIN records_grps
         /\ num_records(records_grps, DOMAIN records_grps) + Len(fields_data) <= MaxRecords
         /\ LET grp == records_grps[<<run_idx, run_record_key>>]
                new_cycle_idxs ==
                    IF is_sporadic_records(run_record_key)
                    THEN grp.cycle_idxs \o [i \in 1 .. Len(fields_data) |-> cycle_idx]
                    ELSE grp.cycle_idxs
            IN records_grps' = [records_grps EXCEPT ![<<run_idx, run_record_key>>] =
                   [cycle_idxs |-> new_cycle_idxs,
                    columns |-> extend_columns(grp.columns, fields_data)]]
         /\ ret' = [op |-> "extend_cycle_run_group_records", err |-> "none",
                    run_idx |-> run_idx, key |-> run_record_key, cycle_idx |-> cycle_idx,
                    fields_data |-> fields_data]
         /\ UNCHANGED <<graph_vars, settings_vars, trajs, record_fields_grp, decision_grps>>

\* _convert_record_field_to_table_column for a dataset of feature shape
\* (1,): the single value of every row
convert_record_field_to_table_column(dset) == [i \in 1 .. Len(dset) |-> dset[i][1]]

\* _convert_record_fields_to_table_columns: the columns of the fields named
\* by the manifest
convert_record_fields_to_table_columns(grp, record_fields) ==
    [f \in Range(record_fields) |-> convert_record_field_to_table_column(grp.columns[f])]

make_records_row_tagged(record_fields, cycle_idxs, fields) ==
    [i \in 1 .. Len(cycle_idxs) |->
        <<i - 1>> \o [k \in 1 .. Len(record_fields) |-> fields[record_fields[k]][i]]]
\* _make_records: one record per cycle index, the cycle index first, then
\* the fields in the order of the manifest
make_records(record_fields, cycle_idxs, fields) ==
    [i \in 1 .. Len(cycle_idxs) |->
        <<cycle_idxs[i]>> \o [k \in 1 .. Len(record_fields) |-> fields[record_fields[k]][i]]]

\* the loop of _run_records_sporadic: the columns of the runs are
\* concatenated, and the cycle indices of a run are shifted by the cycles of
\* the runs before it
RECURSIVE sporadic_loop(_, _, _, _, _, _)
sporadic_loop(rest, run_record_key, record_fields, fields, cycle_idxs, prev_run_cycle_total) ==
    IF rest = << >> THEN [err |-> "none", fields |-> fields, cycle_idxs |-> cycle_idxs]
    ELSE LET run_idx == Head(rest) IN
         IF <<run_idx, run_record_key>> \notin DOMAIN records_grps
            \/ <<run_idx, 0>> \notin DOMAIN trajs
            \/ POSITIONS \notin DOMAIN trajs[<<run_idx, 0>>]
         THEN [err |-> "KeyError", fields |-> fields, cycle_idxs |-> cycle_idxs]
         ELSE LET grp == records_grps[<<run_idx, run_record_key>>]
                  run_fields == convert_record_fields_to_table_columns(grp, record_fields)
                  run_contig_cycle_idxs ==
                      [i \in 1 .. Len(grp.cycle_idxs) |-> grp.cycle_idxs[i] + prev_run_cycle_total]
              IN sporadic_loop(Tail(rest), run_record_key, record_fields,
                               [f \in DOMAIN run_fields |-> fields[f] \o run_fields[f]],
                               cycle_idxs \o run_contig_cycle_idxs,
                               prev_run_cycle_total + num_run_cycles(trajs, run_idx))

\* _run_records_sporadic
run_records_sporadic(run_idxs_arg, run_record_key, record_fields) ==
    LET looped == sporadic_loop(run_idxs_arg, run_record_key, record_fields,
                                [f \in Range(record_fields) |-> << >>], << >>, 0)
    IN IF looped.err # "none" THEN [err |-> looped.err, val |-> << >>]
       ELSE [err |-> "none",
             val |-> make_records(record_fields, looped.cycle_idxs, looped.fields)]

\* _run_records_continual: in the first pass of the loop the columns are
\* converted, run_cycle_idxs is built as a list, and the list is added to
\* the integer prev_run_cycle_total, which raises a TypeError; without a run
\* the loop is skipped and there is no record
run_records_continual(run_idxs_arg, run_record_key, record_fields) ==
    IF run_idxs_arg = << >> THEN [err |-> "none", val |-> << >>]
    ELSE IF <<Head(run_idxs_arg), run_record_key>> \notin DOMAIN records_grps
         THEN [err |-> "KeyError", val |-> << >>]
         ELSE [err |-> "TypeError", val |-> << >>]

\* the body of run_contig_records: no record for an empty manifest,
\* otherwise the sparse or the continual reader
contig_records(run_idxs_arg, run_record_key) ==
    IF run_record_key \notin DOMAIN record_fields_grp
    THEN [err |-> "KeyError", val |-> << >>]
    ELSE IF Len(record_fields_grp[run_record_key]) = 0
    THEN [err |-> "none", val |-> << >>]
    ELSE IF is_sporadic_records(run_record_key)
    THEN run_records_sporadic(run_idxs_arg, run_record_key,
                              record_fields_grp[run_record_key])
    ELSE run_records_continual(run_idxs_arg, run_record_key,
                               record_fields_grp[run_record_key])

\* a call of run_contig_records; the read changes nothing, so one read per
\* behaviour shows every result
run_contig_records(run_idxs_arg, run_record_key) ==
    IF h5_read_error # "none" THEN h5_refused("run_contig_records", h5_read_error)
    ELSE /\ UNCHANGED <<file_vars, sim>>
         /\ ret.op # "run_contig_records"
         /\ LET out == contig_records(run_idxs_arg, run_record_key)
            IN ret' = [op |-> "run_contig_records", err |-> out.err, val |-> out.val,
                       run_idxs |-> run_idxs_arg, key |-> run_record_key]
         /\ UNCHANGED <<graph_vars, settings_vars, data_vars>>

\* an archive with run 0 of one cycle and run 1, continuing it, of two
\* cycles, each with one trajectory and its record groups initialised; the
\* manifest of a group names its field or is empty
InitRecords ==
    /\ open_archive
    /\ runs = {0, 1}
    /\ run_order = <<0, 1>>
    /\ continuations = <<<<1, 0>>>>
    /\ create_init_settings(<< >>)
    /\ trajs = [k \in {<<0, 0>>, <<1, 0>>} |->
                   [fp \in {WEIGHTS, POSITIONS} |-> Dataset([i \in 1 .. (k[1] + 1) |-> 1])]]
    /\ record_fields_grp \in [RecordKeys -> {<< >>, <<FIELD>>}]
    /\ records_grps = [k \in {0, 1} \X RecordKeys |-> init_run_record_grp(k[2])]
    /\ decision_grps = << >>
    /\ ret = [op |-> "init", err |-> "none"]

\* the records of one call: feature vectors of shape (1,)
RecordArgs == {[f \in {FIELD} |-> <<v>>] : v \in DataValues}

NextRecords ==
    \/ \E run_idx \in {0, 1}, run_record_key \in RecordKeys, cycle_idx \in CycleArgs :
           \E fields_data \in SeqsUpTo(RecordArgs, MaxRecords) \ {<< >>} :
               extend_cycle_run_group_records(run_idx, run_record_key, cycle_idx, fields_data)
    \/ \E run_idxs_arg \in {<<0>>, <<1>>, <<0, 1>>}, run_record_key \in RecordKeys :
           run_contig_records(run_idxs_arg, run_record_key)

SpecRecords == InitRecords /\ [][NextRecords]_vars

(* ---------------------------------------------------------------------- *)
(* Run collection and continuation graph                                   *)
(* ---------------------------------------------------------------------- *)
\* num_runs: len(self._h5[RUNS])
num_runs(rs) == Cardinality(rs)

\* run_idxs: list(range(len(self._h5[RUNS])))
run_idxs(rs) == 0 .. (num_runs(rs) - 1)

next_run_idx_skip(rs) == num_runs(rs) + 1
\* next_run_idx: the run counter is the number of runs
next_run_idx(rs) == num_runs(rs)

\* _init_continuations on an archive whose settings hold a continuations
\* dataset: the dataset is resized to (0, 2)
init_continuations(conts) == << >>

\* add_continuation: the dataset grows by one row holding the pair; neither
\* index is checked
add_continuation_edge(conts, continuation_run, base_run) ==
    Append(conts, <<continuation_run, base_run>>)

\* _add_run_init with the pair of the continuation turned round
add_run_init_reversed(conts, run_idx, continue_run) ==
    IF continue_run # None
    THEN add_continuation_edge(conts, continue_run, run_idx)
    ELSE conts
\* _add_run_init: sets the run_idx attribute and, when continue_run is
\* given, records the continuation
add_run_init(conts, run_idx, continue_run) ==
    IF continue_run # None
    THEN add_continuation_edge(conts, run_idx, continue_run)
    ELSE conts

\* add_continuation called directly
add_continuation(continuation_run, base_run) ==
    IF h5_write_error # "none" THEN h5_refused("add_continuation", h5_write_error)
    ELSE /\ UNCHANGED <<file_vars, sim>>
         /\ Len(continuations) < MaxEdges
         /\ continuations' = add_continuation_edge(continuations, continuation_run, base_run)
         /\ ret' = [op |-> "add_continuation", err |-> "none",
                    continuation_run |-> continuation_run, base_run |-> base_run]
         /\ UNCHANGED <<runs, run_order, settings_vars, data_vars>>

\* new_run: rejects a continue_run that is not in run_idxs, otherwise creates
\* the group runs/<next_run_idx> (the first write of the handler) and runs
\* _add_run_init
new_run(continue_run) ==
    IF h5_read_error # "none" THEN h5_refused("new_run", h5_read_error)
    ELSE /\ UNCHANGED <<file_vars, sim>>
         /\ num_runs(runs) < MaxRuns
         /\ continue_run # None => Len(continuations) < MaxEdges
         /\ UNCHANGED <<settings_vars, data_vars>>
         /\ IF continue_run # None /\ continue_run \notin run_idxs(runs)
            THEN /\ ret' = [op |-> "new_run", err |-> "ValueError",
                            run_idx |-> None, base_run |-> continue_run]
                 /\ UNCHANGED <<runs, run_order, continuations>>
            ELSE IF h5_write_error # "none"
            THEN /\ ret' = [op |-> "new_run", err |-> h5_write_error,
                            run_idx |-> None, base_run |-> continue_run]
                 /\ UNCHANGED <<runs, run_order, continuations>>
            ELSE LET new_run_idx == next_run_idx(runs) IN
                 /\ runs' = runs \cup {new_run_idx}
                 /\ run_order' = Append(run_order, new_run_idx)
                 /\ continuations' = add_run_init(continuations, new_run_idx, continue_run)
                 /\ ret' = [op |-> "new_run", err |-> "none",
                            run_idx |-> new_run_idx, base_run |-> continue_run]

\* link_run: the external link is stored under runs/<next_run_idx>, then
\* _add_run_init runs with the caller's continue_run
link_run(continue_run) ==
    IF h5_write_error # "none" THEN h5_refused("link_run", h5_write_error)
    ELSE /\ UNCHANGED <<file_vars, sim>>
         /\ num_runs(runs) < MaxRuns
         /\ continue_run # None => Len(continuations) < MaxEdges
         /\ UNCHANGED <<settings_vars, data_vars>>
         /\ LET here_run_idx == next_run_idx(runs) IN
            /\ runs' = runs \cup {here_run_idx}
            /\ run_order' = Append(run_order, here_run_idx)
            /\ continuations' = add_run_init(continuations, here_run_idx, continue_run)
            /\ ret' = [op |-> "link_run", err |-> "none",
                       run_idx |-> here_run_idx, base_run |-> continue_run]

\* the loop of link_file_runs over ext_run_idxs: each run is linked without
\* continue_run at here_run_idx; the result is <<runs, run_order,
\* new_run_idxs, links>>, links holding <<ext_run_idx, here_run_idx>> per
\* external link
RECURSIVE link_runs_loop(_, _, _, _, _)
link_runs_loop(rs, order, new_run_idxs, links, ext_run_idxs) ==
    IF ext_run_idxs = << >> THEN <<rs, order, new_run_idxs, links>>
    ELSE LET here_run_idx == next_run_idx(rs) IN
         link_runs_loop(rs \cup {here_run_idx}, Append(order, here_run_idx),
                        Append(new_run_idxs, here_run_idx),
                        Append(links, <<Head(ext_run_idxs), here_run_idx>>),
                        Tail(ext_run_idxs))

\* a continuation with both runs left as the other archive numbers them
translate_continuation_untranslated(continuation, new_run_idxs) ==
    <<continuation[1], continuation[2]>>

\* a continuation of the other archive translated through new_run_idxs (a
\* Python list, indexed from 0)
translate_continuation(continuation, new_run_idxs) ==
    <<new_run_idxs[continuation[1] + 1], new_run_idxs[continuation[2] + 1]>>

\* the loop of link_file_runs over the other archive's continuations
RECURSIVE copy_continuations_loop(_, _, _)
copy_continuations_loop(conts, other_conts, new_run_idxs) ==
    IF other_conts = << >> THEN conts
    ELSE LET translated == translate_continuation(Head(other_conts), new_run_idxs) IN
         copy_continuations_loop(
             add_continuation_edge(conts, translated[1], translated[2]),
             Tail(other_conts), new_run_idxs)

\* link_file_runs on another archive holding n_other runs (its run_idxs are
\* 0 .. n_other-1) and the continuations other_conts
link_file_runs(n_other, other_conts) ==
    IF h5_write_error # "none" THEN h5_refused("link_file_runs", h5_write_error)
    ELSE /\ UNCHANGED <<file_vars, sim>>
         /\ num_runs(runs) + n_other <= MaxRuns
         /\ Len(continuations) + Len(other_conts) <= MaxEdges
         /\ UNCHANGED <<settings_vars, data_vars>>
         /\ LET ext_run_idxs == [i \in 1 .. n_other |-> i - 1]
                linked == link_runs_loop(runs, run_order, << >>, << >>, ext_run_idxs) IN
            /\ runs' = linked[1]
            /\ run_order' = linked[2]
            /\ continuations' = copy_continuations_loop(continuations, other_conts, linked[3])
            /\ ret' = [op |-> "link_file_runs", err |-> "none",
                       new_run_idxs |-> linked[3], other_conts |-> other_conts,
                       links |-> linked[4]]

\* join: every run of the other archive is copied to runs/<next_run_idx>
RECURSIVE join_loop(_, _, _)
join_loop(rs, order, n) ==
    IF n = 0 THEN <<rs, order>>
    ELSE LET here_run_idx == next_run_idx(rs) IN
         join_loop(rs \cup {here_run_idx}, Append(order, here_run_idx), n - 1)

join(n_other) ==
    IF h5_write_error # "none" THEN h5_refused("join", h5_write_error)
    ELSE /\ UNCHANGED <<file_vars, sim>>
         /\ num_runs(runs) + n_other <= MaxRuns
         /\ LET joined == join_loop(runs, run_order, n_other) IN
            /\ runs' = joined[1]
            /\ run_order' = joined[2]
            /\ ret' = [op |-> "join", err |-> "none", n_other |-> n_other]
         /\ UNCHANGED <<continuations, settings_vars, data_vars>>

\* clone: the new file gets an empty runs group and a copy of the settings
\* group (the continuations dataset included); _init_continuations is then
\* called on self, the archive being cloned
clone ==
    IF h5_write_error # "none" THEN h5_refused("clone", h5_write_error)
    ELSE /\ UNCHANGED <<file_vars, sim>>
         /\ ret' = [op |-> "clone", err |-> "none",
                    source_continuations |-> continuations,
                    new_runs |-> {},
                    new_continuations |-> continuations]
         /\ continuations' = init_continuations(continuations)
         /\ UNCHANGED <<runs, run_order, settings_vars, data_vars>>

\* the continuation edges an archive with n runs can hold as input
OtherContinuations(n) == SeqsUpTo((0 .. (n - 1)) \X (0 .. (n - 1)), MaxOtherEdges)

Init ==
    /\ open_archive
    /\ runs = {}
    /\ run_order = << >>
    /\ continuations = << >>
    /\ create_init_settings(<< >>)
    /\ no_run_data
    /\ ret = [op |-> "init", err |-> "none"]

Next ==
    \/ \E continue_run \in RunArgs \cup {None} : new_run(continue_run)
    \/ \E continuation_run \in RunArgs, base_run \in RunArgs :
           add_continuation(continuation_run, base_run)
    \/ \E continue_run \in RunArgs \cup {None} : link_run(continue_run)
    \/ \E n_other \in 0 .. MaxOtherRuns :
           \E other_conts \in OtherContinuations(n_other) :
               link_file_runs(n_other, other_conts)
    \/ \E n_other \in 0 .. MaxOtherRuns : join(n_other)
    \/ clone

Spec == Init /\ [][Next]_vars

(* ---------------------------------------------------------------------- *)
(* is_run_contig                                                           *)
(* ---------------------------------------------------------------------- *)
run_idx_continuations_reversed(run_idxs_arg) ==
    [idx \in 1 .. (Len(run_idxs_arg) - 1) |-> <<run_idxs_arg[idx], run_idxs_arg[idx + 1]>>]
\* the list of pairs [run_idxs[idx+1], run_idxs[idx]] for idx in range(len(run_idxs) - 1)
run_idx_continuations(run_idxs_arg) ==
    [idx \in 1 .. (Len(run_idxs_arg) - 1) |-> <<run_idxs_arg[idx + 1], run_idxs_arg[idx]>>]

\* the inner loop: contig becomes True when some row equals the pair
RECURSIVE continuation_found(_, _)
continuation_found(conts, run_continuous) ==
    IF conts = << >> THEN FALSE
    ELSE IF Head(conts) = run_continuous THEN TRUE
    ELSE continuation_found(Tail(conts), run_continuous)

\* the outer loop: False at the first pair that was not found
RECURSIVE contig_loop(_, _)
contig_loop(pairs, conts) ==
    IF pairs = << >> THEN TRUE
    ELSE IF ~continuation_found(conts, Head(pairs)) THEN FALSE
    ELSE contig_loop(Tail(pairs), conts)

is_run_contig(conts, run_idxs_arg) ==
    contig_loop(run_idx_continuations(run_idxs_arg), conts)

\* a call of is_run_contig on the archive; the call changes nothing, so one
\* call per behaviour shows every result
is_run_contig_call(run_idxs_arg) ==
    IF h5_read_error # "none" THEN h5_refused("is_run_contig_call", h5_read_error)
    ELSE /\ UNCHANGED <<file_vars, sim>>
         /\ ret.op = "init"
         /\ ret' = [op |-> "is_run_contig", err |-> "none", run_idxs |-> run_idxs_arg,
                    val |-> is_run_contig(continuations, run_idxs_arg)]
         /\ UNCHANGED <<graph_vars, settings_vars, data_vars>>

\* an archive of MaxRuns runs holding any continuation list add_continuation
\* can have built
InitContig ==
    /\ open_archive
    /\ runs = RunArgs
    /\ run_order = [i \in 1 .. MaxRuns |-> i - 1]
    /\ continuations \in SeqsUpTo(RunArgs \X RunArgs, MaxEdges)
    /\ create_init_settings(<< >>)
    /\ no_run_data
    /\ ret = [op |-> "init", err |-> "none"]

NextContig ==
    \E run_idxs_arg \in SeqsUpTo(RunArgs, MaxContigLen) : is_run_contig_call(run_idxs_arg)

SpecContig == InitContig /\ [][NextContig]_vars

(* ---------------------------------------------------------------------- *)
(* get_contig_trace_fields                                                 *)
(* ---------------------------------------------------------------------- *)
\* run_traj_idxs: list(range(number of trajectories of the run))
run_traj_idxs(tr, run_idx) == [i \in 1 .. num_run_trajs(tr, run_idx) |-> i - 1]

\* the first loop of get_contig_trace_fields: the runs of the trace in the
\* order they first appear
RECURSIVE trace_run_idxs(_, _)
trace_run_idxs(contig_trace, seen) ==
    IF contig_trace = << >> THEN seen
    ELSE trace_run_idxs(Tail(contig_trace),
                        IF Head(contig_trace)[1] \in Range(seen) THEN seen
                        ELSE Append(seen, Head(contig_trace)[1]))

runs_frames_unfiltered(contig_trace, run_idx) ==
    [i \in 1 .. Len(contig_trace) |-> contig_trace[i][2]]
\* runs_frames[run_idx]: the cycle idxs of the entries of the run, in the
\* order of the trace
runs_frames(contig_trace, run_idx) ==
    LET of_run(entry) == entry[1] = run_idx
        entries == SelectSeq(contig_trace, of_run)
    IN [i \in 1 .. Len(entries) |-> entries[i][2]]

\* run_bundle: the masked read of the frames of the run, one per trajectory
run_bundle(run_idx, field, frames) ==
    LET traj_idxs == run_traj_idxs(trajs, run_idx)
        reads == [i \in 1 .. Len(traj_idxs) |->
                     traj_field(trajs[<<run_idx, traj_idxs[i]>>], field, List(frames), TRUE)]
        failed == {i \in 1 .. Len(reads) : reads[i].err # "none"}
    IN IF failed # {}
       THEN [err |-> reads[CHOOSE i \in failed : \A j \in failed : i <= j].err,
             val |-> << >>]
       ELSE [err |-> "none", val |-> [i \in 1 .. Len(reads) |-> reads[i].val]]

\* np.swapaxes(np.hstack(bundles), 0, 1): the bundles, each indexed
\* [trajectory][frame], are joined along the frames and the result is
\* indexed [frame][trajectory]
RECURSIVE stack_bundles(_, _)
stack_bundles(bundles, n_trajs) ==
    IF bundles = << >> THEN << >>
    ELSE LET bundle == Head(bundles)
             n_rows == IF n_trajs = 0 THEN 0 ELSE Len(bundle[1])
         IN [q \in 1 .. n_rows |-> [t \in 1 .. n_trajs |-> bundle[t][q]]]
            \o stack_bundles(Tail(bundles), n_trajs)

\* the value of one field: the bundles of the runs in turn, then stacked
field_log(run_idxs_arg, contig_trace, field, n_trajs) ==
    LET bundles == [i \in 1 .. Len(run_idxs_arg) |->
                       run_bundle(run_idxs_arg[i], field,
                                  runs_frames(contig_trace, run_idxs_arg[i]))]
        failed == {i \in 1 .. Len(bundles) : bundles[i].err # "none"}
    IN IF failed # {}
       THEN [err |-> bundles[CHOOSE i \in failed : \A j \in failed : i <= j].err,
             val |-> << >>]
       ELSE [err |-> "none",
             val |-> stack_bundles([i \in 1 .. Len(bundles) |-> bundles[i].val], n_trajs)]

\* the body of get_contig_trace_fields: an IndexError for an empty trace,
\* an AssertionError when the runs differ in their number of trajectories,
\* otherwise the value of every field
contig_trace_fields(contig_trace, fields) ==
    LET trace_runs == trace_run_idxs(contig_trace, << >>)
    IN IF trace_runs = << >> THEN [err |-> "IndexError", val |-> << >>]
       ELSE IF \E i \in 1 .. Len(trace_runs) :
                   trace_runs[i] \notin runs
       THEN [err |-> "KeyError", val |-> << >>]
       ELSE LET n_trajs_test == num_run_trajs(trajs, trace_runs[1])
            IN IF \E i \in 1 .. Len(trace_runs) :
                      num_run_trajs(trajs, trace_runs[i]) # n_trajs_test
               THEN [err |-> "AssertionError", val |-> << >>]
               ELSE LET logs == [field \in fields |->
                                    field_log(trace_runs, contig_trace, field, n_trajs_test)]
                        failed == {field \in fields : logs[field].err # "none"}
                    IN IF failed # {}
                       THEN [err |-> logs[CHOOSE field \in failed : TRUE].err, val |-> << >>]
                       ELSE [err |-> "none", val |-> [field \in fields |-> logs[field].val]]

\* a call of get_contig_trace_fields; it changes nothing, so one call per
\* behaviour shows every result
get_contig_trace_fields(contig_trace, fields) ==
    IF h5_read_error # "none" THEN h5_refused("get_contig_trace_fields", h5_read_error)
    ELSE /\ UNCHANGED <<file_vars, sim>>
         /\ ret.op = "init"
         /\ LET out == contig_trace_fields(contig_trace, fields)
            IN ret' = [op |-> "get_contig_trace_fields", err |-> out.err, val |-> out.val,
                       contig_trace |-> contig_trace, fields |-> fields]
         /\ UNCHANGED <<graph_vars, settings_vars, data_vars>>

\* the row add_traj and extend_traj stored for a cycle of a trajectory: the
\* rows are told apart by run, trajectory and cycle
FrameValue(run_idx, traj_idx, cycle_idx) == <<run_idx, traj_idx, cycle_idx>>

\* an archive with run 0 and run 1, continuing it, each with the same
\* number of trajectories; every trajectory of a run has the cycles of
\* the run
InitTrace ==
    /\ open_archive
    /\ runs = {0, 1}
    /\ run_order = <<0, 1>>
    /\ continuations = <<<<1, 0>>>>
    /\ create_init_settings(<< >>)
    /\ \E n_cycles \in (1 .. MaxRun0Cycles) \X (1 .. MaxRun1Cycles) :
           \E n_trajs \in 1 .. MaxSlots :
               trajs = [k \in {0, 1} \X (0 .. (n_trajs - 1)) |->
                   [fp \in {WEIGHTS, POSITIONS} |->
                       Dataset([i \in 1 .. n_cycles[k[1] + 1] |->
                                   IF fp = WEIGHTS THEN 1
                                   ELSE FrameValue(k[1], k[2], i - 1)])]]
    /\ record_fields_grp = << >>
    /\ records_grps = << >>
    /\ decision_grps = << >>
    /\ ret = [op |-> "init", err |-> "none"]

\* the contig traces over run 0 then run 1: the last cycles of run 0
\* from cycle first on, then the first n_next cycles of run 1
ContigTraces ==
    {[i \in 1 .. (num_run_cycles(trajs, 0) - first) |-> <<0, first + i - 1>>]
        \o [i \in 1 .. n_next |-> <<1, i - 1>>] :
            first \in 0 .. num_run_cycles(trajs, 0),
            n_next \in 0 .. num_run_cycles(trajs, 1)}

NextTrace ==
    \E contig_trace \in ContigTraces : \E fields \in {{POSITIONS}, {POSITIONS, WEIGHTS}} :
        get_contig_trace_fields(contig_trace, fields)

SpecTrace == InitTrace /\ [][NextTrace]_vars

(* ---------------------------------------------------------------------- *)
(* Resampling panel                                                        *)
(* ---------------------------------------------------------------------- *)
\* the parameters of the method run_resampling_panel after self
run_resampling_panel_params == <<"run_idx">>

\* a call of a bound method with n_positional positional arguments and the
\* keyword arguments keywords: Python raises a TypeError for a keyword that
\* is no parameter and for too many positional arguments
call_binds(params, n_positional, keywords) ==
    /\ n_positional <= Len(params)
    /\ keywords \subseteq {params[i] : i \in (n_positional + 1) .. Len(params)}

\* resampling_records
resampling_records(run_idxs_arg) == contig_records(run_idxs_arg, RESAMPLING)

\* the body of run_contig_resampling_panel: a ValueError for run_idxs that
\* are no contig; otherwise the records are read and handed, with the
\* keyword is_sorted, to self.run_resampling_panel, whose only parameter is
\* run_idx; a call that did bind would look up the run named by the list
\* of records.
contig_resampling_panel(run_idxs_arg) ==
    IF ~is_run_contig(continuations, run_idxs_arg)
    THEN [err |-> "ValueError", records |-> << >>]
    ELSE LET records == resampling_records(run_idxs_arg) IN
         IF records.err # "none" THEN [err |-> records.err, records |-> << >>]
         ELSE IF ~call_binds(run_resampling_panel_params, 1, {"is_sorted"})
         THEN [err |-> "TypeError", records |-> << >>]
         ELSE [err |-> "KeyError", records |-> << >>]

\* a call of run_contig_resampling_panel; it changes nothing, so one call
\* per behaviour shows every result
run_contig_resampling_panel(run_idxs_arg) ==
    IF h5_read_error # "none" THEN h5_refused("run_contig_resampling_panel", h5_read_error)
    ELSE /\ UNCHANGED <<file_vars, sim>>
         /\ ret.op \notin {"run_contig_resampling_panel", "run_resampling_panel"}
         /\ LET out == contig_resampling_panel(run_idxs_arg)
            IN ret' = [op |-> "run_contig_resampling_panel", err |-> out.err,
                       records |-> out.records, run_idxs |-> run_idxs_arg]
         /\ UNCHANGED <<graph_vars, settings_vars, data_vars>>

\* run_resampling_panel(run_idx): run_contig_resampling_panel([run_idx])
run_resampling_panel(run_idx) ==
    IF h5_read_error # "none" THEN h5_refused("run_resampling_panel", h5_read_error)
    ELSE /\ UNCHANGED <<file_vars, sim>>
         /\ ret.op \notin {"run_contig_resampling_panel", "run_resampling_panel"}
         /\ LET out == contig_resampling_panel(<<run_idx>>)
            IN ret' = [op |-> "run_resampling_panel", err |-> out.err,
                       records |-> out.records, run_idxs |-> <<run_idx>>]
         /\ UNCHANGED <<graph_vars, settings_vars, data_vars>>

NextPanel ==
    \/ \E run_idx \in {0, 1}, cycle_idx \in CycleArgs :
           \E fields_data \in SeqsUpTo(RecordArgs, MaxRecords) \ {<< >>} :
               extend_cycle_run_group_records(run_idx, RESAMPLING, cycle_idx, fields_data)
    \/ \E run_idxs_arg \in {<<0>>, <<1>>, <<0, 1>>, <<1, 0>>} :
           run_contig_resampling_panel(run_idxs_arg)
    \/ \E run_idx \in {0, 1} : run_resampling_panel(run_idx)

SpecPanel == InitRecords /\ [][NextPanel]_vars

(* ---------------------------------------------------------------------- *)
(* add_run_observable                                                      *)
(* ---------------------------------------------------------------------- *)
\* _add_traj_field_data: one dataset without sparse idxs, a group of the
\* datasets data and _sparse_idxs with them; the sparse-field list is
\* neither read nor written
add_traj_field_data(field_data, sparse_idxs) ==
    IF sparse_idxs.none THEN Dataset(field_data)
    ELSE SparseGroup(field_data, sparse_idxs.idxs)

\* data.shape[0] of the data handed to _add_run_field: the number of
\* trajectories of an array; a list has no attribute shape
data_shape0(data_kind, data) ==
    IF data_kind = "ndarray" THEN [err |-> "none", val |-> Len(data)]
    ELSE [err |-> "AttributeError", val |-> 0]

\* the first loop of _add_run_field over enumerate(data) from traj_idx on,
\* left at the first error: more frames than cycles is an error (whose
\* message reads data.shape); with sparse idxs given data.shape[0] is
\* compared with the number of idxs of the trajectory; without them fewer
\* frames than cycles is an error
RECURSIVE run_field_check(_, _, _, _, _)
run_field_check(n_cycles, data_kind, data, sparse_idxs, traj_idx) ==
    IF traj_idx >= Len(data) THEN "none"
    ELSE LET traj_data == data[traj_idx + 1]
             shape0 == data_shape0(data_kind, data)
             rest == run_field_check(n_cycles, data_kind, data, sparse_idxs, traj_idx + 1)
         IN IF Len(traj_data) > n_cycles
            THEN IF shape0.err # "none" THEN shape0.err ELSE "ValueError"
            ELSE IF ~sparse_idxs.none
            THEN IF shape0.err # "none" THEN shape0.err
                 ELSE IF shape0.val # Len(sparse_idxs.idxs[traj_idx + 1]) THEN "ValueError"
                 ELSE rest
            ELSE IF Len(traj_data) < n_cycles THEN "ValueError"
            ELSE rest

\* the second loop of _add_run_field over the trajectories of the run from
\* position i on: the field is created in each; h5py refuses a name the
\* trajectory already holds and what was written before stays written
RECURSIVE add_run_field_loop(_, _, _, _, _, _)
add_run_field_loop(tr, run_idx, field_path, data, sparse_idxs, i) ==
    IF i > Len(run_traj_idxs(tr, run_idx)) THEN [trajs |-> tr, err |-> "none"]
    ELSE LET key == <<run_idx, run_traj_idxs(tr, run_idx)[i]>>
             traj_sparse_idxs == IF sparse_idxs.none THEN NoList
                                 ELSE List(sparse_idxs.idxs[i])
         IN IF field_path \in DOMAIN tr[key]
            THEN [trajs |-> tr, err |-> "ValueError"]
            ELSE add_run_field_loop(
                     [tr EXCEPT ![key] = SetItem(tr[key], field_path,
                                             add_traj_field_data(data[i], traj_sparse_idxs))],
                     run_idx, field_path, data, sparse_idxs, i + 1)

\* _add_run_field
add_run_field(tr, run_idx, field_path, data_kind, data, sparse_idxs) ==
    IF Len(data) # num_run_trajs(tr, run_idx)
    THEN [trajs |-> tr, err |-> "AssertionError"]
    ELSE LET checked == run_field_check(num_run_cycles(tr, run_idx), data_kind, data,
                                        sparse_idxs, 0)
         IN IF checked # "none" THEN [trajs |-> tr, err |-> checked]
            ELSE add_run_field_loop(tr, run_idx, field_path, data, sparse_idxs, 1)

\* the lengths of the sequences of a sequence
Lens(seqs) == [i \in 1 .. Len(seqs) |-> Len(seqs[i])]

\* add_run_observable(run_idx, observable_name, data, sparse_idxs): the
\* field observables/<observable_name> goes through _add_run_field; the
\* outcome names the frames and the sparse idxs given per trajectory
add_run_observable(run_idx, observable_name, data_kind, data, sparse_idxs) ==
    IF h5_read_error # "none" THEN h5_refused("add_run_observable", h5_read_error)
    ELSE /\ UNCHANGED <<file_vars, sim>>
         /\ run_idx \in runs
         /\ <<run_idx, 0>> \in DOMAIN trajs
         /\ LET obs_path == OBSERVABLES \o "/" \o observable_name
                out == add_run_field(trajs, run_idx, obs_path, data_kind, data, sparse_idxs)
                called == [op |-> "add_run_observable", run_idx |-> run_idx,
                           field_path |-> obs_path, data_kind |-> data_kind,
                           n_trajs |-> Len(data), n_frames |-> Lens(data),
                           n_sparse_idxs |-> IF sparse_idxs.none THEN NoList
                                             ELSE List(Lens(sparse_idxs.idxs))]
            IN IF out.err = "none" /\ h5_write_error # "none"
               THEN /\ ret' = called @@ [err |-> h5_write_error]
                    /\ UNCHANGED trajs
               ELSE /\ ret' = called @@ [err |-> out.err]
                    /\ trajs' = out.trajs
         /\ UNCHANGED <<graph_vars, settings_vars, record_fields_grp, records_grps, decision_grps>>

\* the data a caller hands in for a run of n_trajs trajectories and
\* n_cycles cycles: an array of equally many frames per trajectory or a list
\* of arrays, of at most one frame more than the cycles
RunFieldData(data_kind, n_trajs, n_cycles) ==
    LET frames == UNION {[1 .. m -> DataValues] : m \in 1 .. (n_cycles + 1)}
    IN {d \in [1 .. n_trajs -> frames] :
           data_kind = "ndarray" => \A i \in 1 .. n_trajs : Len(d[i]) = Len(d[1])}

\* the sparse idxs a caller hands in: None, or per trajectory an increasing
\* list of cycles of the run
RunFieldSparseIdxs(n_trajs, n_cycles) ==
    {NoList} \cup {List(idxs) : idxs \in [1 .. n_trajs -> IncreasingSeqs(n_cycles)]}

\* an archive created with or without the observable flagged sparse, whose
\* run 0 has at least one trajectory, every trajectory of the same number
\* of cycles
InitRunField ==
    /\ open_archive
    /\ runs = {0}
    /\ run_order = <<0>>
    /\ continuations = << >>
    /\ \E sparse_fields_kwarg \in {<< >>, <<RMSD>>} :
           create_init_settings(sparse_fields_kwarg)
    /\ \E n_trajs \in 1 .. MaxTrajs, n_cycles \in 1 .. MaxFrames :
           /\ n_trajs * n_cycles <= MaxFrames
           /\ trajs = [k \in {0} \X (0 .. (n_trajs - 1)) |->
                          [fp \in {WEIGHTS, POSITIONS} |->
                              Dataset([i \in 1 .. n_cycles |-> 1])]]
    /\ record_fields_grp = << >>
    /\ records_grps = << >>
    /\ decision_grps = << >>
    /\ ret = [op |-> "init", err |-> "none"]

NextRunField ==
    \/ \E data_kind \in {"ndarray", "list"} :
           \E data \in RunFieldData(data_kind, num_run_trajs(trajs, 0),
                                    num_run_cycles(trajs, 0)) :
               \E sparse_idxs \in RunFieldSparseIdxs(num_run_trajs(trajs, 0),
                                                     num_run_cycles(trajs, 0)) :
                   add_run_observable(0, "rmsd", data_kind, data, sparse_idxs)
    \/ \E traj_idx \in 0 .. (MaxTrajs - 1) :
           \E frames \in {NoList} \cup {List(<<f>>) : f \in 0 .. (MaxFrames - 1)} :
               \E masked \in BOOLEAN :
                   get_traj_field(0, traj_idx, RMSD, frames, masked)

SpecRunField == InitRunField /\ [][NextRunField]_vars

(* ---------------------------------------------------------------------- *)
(* The decision enumeration of a run                                       *)
(* ---------------------------------------------------------------------- *)
\* the decision enumerations a resampler carries, each as the mapping of
\* the member names to their values (resampler.DECISION.enum_dict_by_name())
Decision == << >>
CloneMergeDecision == [NOTHING |-> 1, CLONE |-> 2, SQUASH |-> 3, MERGE |-> 4]
DecisionEnums == {Decision, CloneMergeDecision}

\* init_run_fields_resampling_decision: the group decision is created in
\* the run and one dataset per name is written
init_run_fields_resampling_decision(rs, dgrps, run_idx, decision_enum_dict) ==
    IF run_idx \notin rs THEN [err |-> "KeyError", decision_grps |-> dgrps]
    ELSE IF run_idx \in DOMAIN dgrps THEN [err |-> "ValueError", decision_grps |-> dgrps]
    ELSE [err |-> "none", decision_grps |-> SetItem(dgrps, run_idx, decision_enum_dict)]

\* init_run_resampling_decision(run_idx, resampler)
init_run_resampling_decision(rs, dgrps, run_idx, decision_enum_dict) ==
    init_run_fields_resampling_decision(rs, dgrps, run_idx, decision_enum_dict)

\* _init_run_sporadic_record_grp for the resampling records of the run
init_run_resampling_records(rs, grps, run_idx) ==
    IF run_idx \notin rs THEN [err |-> "KeyError", records_grps |-> grps]
    ELSE IF <<run_idx, RESAMPLING>> \in DOMAIN grps
    THEN [err |-> "ValueError", records_grps |-> grps]
    ELSE [err |-> "none",
          records_grps |-> SetItem(grps, <<run_idx, RESAMPLING>>,
                                   init_run_record_grp(RESAMPLING))]

\* init_run_resampling(run_idx, resampler): the decision enumeration is
\* stored by init_run_resampling_decision(0, resampler), then the resampling
\* record group of run run_idx is created; what was written before an error
\* stays written
init_run_resampling(run_idx, decision_enum_dict) ==
    IF h5_write_error # "none" THEN h5_refused("init_run_resampling", h5_write_error)
    ELSE /\ UNCHANGED <<file_vars, sim>>
         /\ LET decided == init_run_resampling_decision(runs, decision_grps, 0,
                                                        decision_enum_dict)
                grouped == init_run_resampling_records(runs, records_grps, run_idx)
            IN /\ decision_grps' = decided.decision_grps
               /\ IF decided.err # "none"
                  THEN /\ UNCHANGED records_grps
                       /\ ret' = [op |-> "init_run_resampling", err |-> decided.err,
                                  run_idx |-> run_idx, enum |-> decision_enum_dict]
                  ELSE /\ records_grps' = grouped.records_grps
                       /\ ret' = [op |-> "init_run_resampling", err |-> grouped.err,
                                  run_idx |-> run_idx, enum |-> decision_enum_dict]
         /\ UNCHANGED <<graph_vars, settings_vars, trajs, record_fields_grp>>

\* decision_enum(run_idx): the names and values of the decision group of
\* the run
decision_enum(rs, dgrps, run_idx) ==
    IF run_idx \notin rs \/ run_idx \notin DOMAIN dgrps
    THEN [err |-> "KeyError", val |-> << >>]
    ELSE [err |-> "none", val |-> dgrps[run_idx]]

\* runs are created and their resampling is initialised, in any order
NextDecision ==
    \/ \E continue_run \in RunArgs \cup {None} : new_run(continue_run)
    \/ \E run_idx \in RunArgs, decision_enum_dict \in DecisionEnums :
           init_run_resampling(run_idx, decision_enum_dict)

SpecDecision == Init /\ [][NextDecision]_vars

(* ---------------------------------------------------------------------- *)
(* Open modes: the constructor, open, close and the context manager        *)
(* ---------------------------------------------------------------------- *)
MODES == {"r", "r+", "w", "w-", "x", "a"}

\* the mode h5py.File takes when the caller gives none: 'a' before h5py 3.0,
\* 'r' from it on
H5pyDefaultModes == {"a", "r"}

\* the mode attribute of an h5py file object: 'r' or 'r+'
h5_file_mode(mode) == IF mode = "r" THEN "r" ELSE "r+"

\* h5py.File(filename, mode): 'r' and 'r+' need the file, 'w-' and 'x' need
\* the path free, 'w' leaves a new file whatever was there, 'a' creates the
\* file when there is none; file is what the path holds afterwards
h5py_File(mode, f) ==
    IF mode \in {"r", "r+"}
    THEN [err |-> IF f = "absent" THEN "OSError" ELSE "none", file |-> f]
    ELSE IF mode \in {"w-", "x"}
    THEN IF f = "absent" THEN [err |-> "none", file |-> "empty"]
         ELSE [err |-> "OSError", file |-> f]
    ELSE IF mode = "w" THEN [err |-> "none", file |-> "empty"]
    ELSE [err |-> "none", file |-> IF f = "absent" THEN "empty" ELSE f]

\* osp.exists(self._filename)
osp_exists(f) == f # "absent"

\* the initialiser __init__ runs inside the with block for a wepy mode
init_branch(wepy_mode, f) ==
    IF wepy_mode \in {"w", "w-", "x"} THEN "_create_init"
    ELSE IF wepy_mode = "r+" THEN "_read_write_init"
    ELSE IF wepy_mode = "a"
         THEN IF osp_exists(f) THEN "_read_write_init" ELSE "_create_init"
    ELSE "_read_init"

\* a path without the groups of an archive
no_groups ==
    /\ runs = {}
    /\ run_order = << >>
    /\ continuations = << >>
    /\ shapes_grp = << >>
    /\ dtypes_grp = << >>
    /\ sparse_fields_ds = << >>
    /\ no_run_data

\* a new file: whatever the path held is gone
truncate ==
    /\ runs' = {}
    /\ run_order' = << >>
    /\ continuations' = << >>
    /\ shapes_grp' = << >>
    /\ dtypes_grp' = << >>
    /\ sparse_fields_ds' = << >>
    /\ trajs' = << >>
    /\ record_fields_grp' = << >>
    /\ records_grps' = << >>
    /\ decision_grps' = << >>

\* _create_init on a new file: the runs group, the settings of the
\* sparse_fields kwarg, the record_fields group and an empty continuation
\* list
create_init(sparse_fields_kwarg) ==
    LET created == created_settings(sparse_fields_kwarg)
    IN /\ runs' = {}
       /\ run_order' = << >>
       /\ continuations' = init_continuations(<< >>)
       /\ sparse_fields_ds' = created.sparse_fields_ds
       /\ shapes_grp' = created.shapes_grp
       /\ dtypes_grp' = created.dtypes_grp
       /\ trajs' = << >>
       /\ record_fields_grp' = << >>
       /\ records_grps' = << >>
       /\ decision_grps' = << >>

\* WepyHDF5(filename, topology, mode, sparse_fields): h5py.File opens the
\* path in the mode, the initialiser of the mode runs on the open file,
\* _h5py_mode becomes the mode of the file object and the object is left
\* closed; an exception leaves no object
__init__(mode, topology, sparse_fields_kwarg) ==
    /\ handle = NoHandle
    /\ UNCHANGED sim
    /\ LET h5 == h5py_File(mode, file)
           branch == init_branch(mode, h5.file)
           self == [wepy_mode |-> mode, h5py_mode |-> h5_file_mode(mode),
                    closed |-> TRUE, h5_mode |-> "none"]
           called == [op |-> "__init__", mode |-> mode, topology |-> topology,
                      existed |-> osp_exists(file), branch |-> branch]
       IN IF h5.err # "none"
          THEN /\ ret' = [called EXCEPT !.branch = "none"] @@ [err |-> h5.err]
               /\ UNCHANGED <<graph_vars, settings_vars, data_vars, file_vars>>
          ELSE IF branch = "_create_init"
          THEN IF topology = "None"
               THEN /\ file' = h5.file
                    /\ truncate
                    /\ ret' = called @@ [err |-> "AssertionError"]
                    /\ UNCHANGED handle
               ELSE /\ file' = "archive"
                    /\ create_init(sparse_fields_kwarg)
                    /\ handle' = self
                    /\ ret' = called @@ [err |-> "none"]
          ELSE /\ file' = h5.file
               /\ IF h5.file = file
                  THEN UNCHANGED <<graph_vars, settings_vars, data_vars>>
                  ELSE truncate
               /\ handle' = self
               /\ ret' = called @@ [err |-> "none"]

\* __del__: close, and the object is gone
__del__ ==
    /\ handle # NoHandle
    /\ handle' = NoHandle
    /\ ret' = [op |-> "__del__", err |-> "none"]
    /\ UNCHANGED <<graph_vars, settings_vars, data_vars, file, sim>>

\* open without the test of closed
open_unguarded ==
    /\ handle # NoHandle
    /\ handle' = [handle EXCEPT !.closed = FALSE, !.h5_mode = handle.h5py_mode]
    /\ ret' = [op |-> "open", err |-> "none"]
    /\ UNCHANGED <<graph_vars, settings_vars, data_vars, file, sim>>

\* open: the file is opened in _h5py_mode; IOError on an open handle
open ==
    /\ handle # NoHandle
    /\ IF handle.closed
       THEN /\ handle' = [handle EXCEPT !.closed = FALSE, !.h5_mode = handle.h5py_mode]
            /\ ret' = [op |-> "open", err |-> "none"]
       ELSE /\ ret' = [op |-> "open", err |-> "IOError"]
            /\ UNCHANGED handle
    /\ UNCHANGED <<graph_vars, settings_vars, data_vars, file, sim>>

\* close: closes an open handle, does nothing on a closed one
close ==
    /\ handle # NoHandle
    /\ handle' = [handle EXCEPT !.closed = TRUE, !.h5_mode = "none"]
    /\ ret' = [op |-> "close", err |-> "none"]
    /\ UNCHANGED <<graph_vars, settings_vars, data_vars, file, sim>>

\* __enter__: h5py.File(self._filename) with no mode, so the file object
\* has the default mode of the library; HDF5 refuses write intent on a file
\* the process holds open read-only
__enter__(default_mode) ==
    /\ handle # NoHandle
    /\ IF ~handle.closed /\ handle.h5_mode = "r" /\ h5_file_mode(default_mode) = "r+"
       THEN /\ ret' = [op |-> "__enter__", err |-> "OSError"]
            /\ UNCHANGED handle
       ELSE /\ handle' = [handle EXCEPT !.closed = FALSE,
                                        !.h5_mode = h5_file_mode(default_mode)]
            /\ ret' = [op |-> "__enter__", err |-> "none"]
    /\ UNCHANGED <<graph_vars, settings_vars, data_vars, file, sim>>

\* __exit__: flush, which a closed file object refuses, then close
__exit__ ==
    /\ handle # NoHandle
    /\ IF handle.closed
       THEN /\ ret' = [op |-> "__exit__", err |-> "ValueError"]
            /\ UNCHANGED handle
       ELSE /\ handle' = [handle EXCEPT !.closed = TRUE, !.h5_mode = "none"]
            /\ ret' = [op |-> "__exit__", err |-> "none"]
    /\ UNCHANGED <<graph_vars, settings_vars, data_vars, file, sim>>

\* a path that holds nothing, or an archive with run 0, its trajectory of
\* one frame and its resampling records group; no object is constructed
InitMode ==
    /\ handle = NoHandle
    /\ sim = NoManager
    /\ ret = [op |-> "init", err |-> "none"]
    /\ \/ /\ file = "absent"
          /\ no_groups
       \/ /\ file = "archive"
          /\ runs = {0}
          /\ run_order = <<0>>
          /\ continuations = << >>
          /\ create_init_settings(<< >>)
          /\ trajs = [k \in {<<0, 0>>} |->
                         [fp \in {WEIGHTS, POSITIONS} |-> Dataset(<<1>>)]]
          /\ record_fields_grp = [k \in RecordKeys |-> <<FIELD>>]
          /\ records_grps = [k \in {0} \X RecordKeys |-> init_run_record_grp(k[2])]
          /\ decision_grps = << >>

\* the constructor in every mode, the handle operations, and the mutating
\* operations with one input each
NextMode ==
    \/ \E mode \in MODES, topology \in {"None", "given"} :
           __init__(mode, topology, << >>)
    \/ __del__
    \/ open
    \/ close
    \/ \E default_mode \in H5pyDefaultModes : __enter__(default_mode)
    \/ __exit__
    \/ new_run(None)
    \/ add_continuation(0, 0)
    \/ add_traj(0, 1, <<NumAtoms, N_DIMS>>, NoList, NoList)
    \/ extend_traj(0, 0, <<POSITIONS>>, [fp \in {POSITIONS} |-> <<1>>])
    \/ \E v \in DataValues :
           extend_cycle_run_group_records(0, RESAMPLING, 0, <<[f \in {FIELD} |-> <<v>>]>>)

SpecMode == InitMode /\ [][NextMode]_vars

(* ---------------------------------------------------------------------- *)
(* sim_manager: Manager.run_simulation                                     *)
(* ---------------------------------------------------------------------- *)
\* the calls a reporter receives
ReporterInit == [call |-> "init", cycle_idx |-> None]
ReporterReport(cycle_idx) == [call |-> "report", cycle_idx |-> cycle_idx]
ReporterCleanup == [call |-> "cleanup", cycle_idx |-> None]

\* the walkers handed to resampler.resample
resampler_walkers(new_walkers, warped_walkers) == new_walkers

\* the walkers bound to walkers at the end of the loop body, with the
\* walkers of the segment in place of the resampled ones
next_cycle_walkers_segment(new_walkers, warped_walkers, resampled_walkers) == new_walkers
\* the walkers bound to walkers at the end of the loop body
next_cycle_walkers(new_walkers, warped_walkers, resampled_walkers) == resampled_walkers

\* run_simulation up to the loop: the reporter is initialised and walkers
\* is bound to the initial walkers
run_simulation(n_cycles, segment_lengths) ==
    /\ sim.pc = "constructed"
    /\ sim' = [sim EXCEPT !.pc = "for", !.n_cycles = n_cycles,
                          !.segment_lengths = segment_lengths,
                          !.reporter = Append(sim.reporter, ReporterInit),
                          !.walkers = sim.init_walkers,
                          !.cycle_idx = 0]
    /\ UNCHANGED <<graph_vars, settings_vars, data_vars, file_vars, ret>>

\* the segment of a cycle: segment_lengths[cycle_idx] raises IndexError
\* past the end of the list; the runner takes every walker to some state
run_segment ==
    /\ sim.pc = "for"
    /\ sim.cycle_idx < sim.n_cycles
    /\ IF sim.cycle_idx >= Len(sim.segment_lengths)
       THEN sim' = [sim EXCEPT !.pc = "raised", !.err = "IndexError"]
       ELSE \E new_walkers \in Walkers(Len(sim.walkers)) :
                sim' = [sim EXCEPT !.pc = "warp_walkers",
                                   !.segment_arg = sim.walkers,
                                   !.new_walkers = new_walkers]
    /\ UNCHANGED <<graph_vars, settings_vars, data_vars, file_vars, ret>>

\* boundary_conditions.warp_walkers(new_walkers): every walker is left
\* where it is or warped to the state of its initial walker
warp_walkers ==
    /\ sim.pc = "warp_walkers"
    /\ \E warped_walkers \in Walkers(Len(sim.new_walkers)) :
           /\ \A i \in 1 .. Len(sim.new_walkers) :
                  warped_walkers[i] \in {sim.new_walkers[i], sim.init_walkers[i]}
           /\ sim' = [sim EXCEPT !.pc = "resample", !.warped_walkers = warped_walkers]
    /\ UNCHANGED <<graph_vars, settings_vars, data_vars, file_vars, ret>>

\* resampler.resample(...): every resampled walker is one of the walkers
\* handed in
resample ==
    /\ sim.pc = "resample"
    /\ LET arg == resampler_walkers(sim.new_walkers, sim.warped_walkers)
       IN \E resampled_walkers \in [1 .. Len(arg) -> Range(arg)] :
              sim' = [sim EXCEPT !.pc = "report", !.resample_arg = arg,
                                 !.resampled_walkers = resampled_walkers]
    /\ UNCHANGED <<graph_vars, settings_vars, data_vars, file_vars, ret>>

\* reporter.report(cycle_idx, ...), then walkers is rebound and the loop
\* takes the next cycle_idx
report ==
    /\ sim.pc = "report"
    /\ sim' = [sim EXCEPT !.pc = "for",
                          !.reporter = Append(sim.reporter, ReporterReport(sim.cycle_idx)),
                          !.walkers = next_cycle_walkers(sim.new_walkers, sim.warped_walkers,
                                                         sim.resampled_walkers),
                          !.cycle_idx = sim.cycle_idx + 1]
    /\ UNCHANGED <<graph_vars, settings_vars, data_vars, file_vars, ret>>

\* reporter.cleanup() after the loop
cleanup ==
    /\ sim.pc = "for"
    /\ sim.cycle_idx >= sim.n_cycles
    /\ sim' = [sim EXCEPT !.pc = "done",
                          !.reporter = Append(sim.reporter, ReporterCleanup)]
    /\ UNCHANGED <<graph_vars, settings_vars, data_vars, file_vars, ret>>

\* a Manager with at least one initial walker; the archive plays no part
InitSim ==
    /\ file = "absent"
    /\ handle = NoHandle
    /\ no_groups
    /\ ret = [op |-> "init", err |-> "none"]
    /\ \E n \in 1 .. MaxWalkers : \E init_walkers \in Walkers(n) :
           sim = Manager(init_walkers)

NextSim ==
    \/ \E n_cycles \in 0 .. MaxSimCycles :
           \E n_lengths \in 0 .. MaxSimCycles :
               run_simulation(n_cycles, [i \in 1 .. n_lengths |-> 1])
    \/ run_segment
    \/ warp_walkers
    \/ resample
    \/ report
    \/ cleanup

SpecSim == InitSim /\ [][NextSim]_vars

(* ---------------------------------------------------------------------- *)
(* Properties of the run collection and the continuation graph             *)
(* ---------------------------------------------------------------------- *)

\* C1: the archive produced by clone has an empty continuation edge list,
\* whatever edges the source holds when clone is called.
C1_CloneHasNoContinuations ==
    (ret.op = "clone" /\ ret.err = "none") => ret.new_continuations = << >>

\* C2: the continuation edge list is append-only: the list before any step
\* is a prefix of the list after it.
C2_ContinuationsAppendOnly ==
    [][IsPrefix(continuations, continuations')]_vars

\* C3: is_run_contig(run_idxs) is true exactly when every pair
\* (run_idxs[i+1], run_idxs[i]) is a continuation edge; a one-element
\* sequence is a contig; with edges {(1,0),(2,1)}, [0,1,2] is a contig and
\* [0,2] and [2,1,0] are not.
C3_IsRunContig ==
    ret.op = "is_run_contig" =>
        /\ ret.val = (\A i \in 1 .. (Len(ret.run_idxs) - 1) :
                         <<ret.run_idxs[i + 1], ret.run_idxs[i]>> \in Range(continuations))
        /\ Len(ret.run_idxs) = 1 => ret.val
        /\ Range(continuations) = {<<1, 0>>, <<2, 1>>} =>
               /\ ret.run_idxs = <<0, 1, 2>> => ret.val
               /\ ret.run_idxs = <<0, 2>> => ~ret.val
               /\ ret.run_idxs = <<2, 1, 0>> => ~ret.val

C3_Witness ==
    /\ continuations = <<<<1, 0>>, <<2, 1>>>>
    /\ ret.op = "is_run_contig"
    /\ ret.run_idxs = <<2, 1, 0>>
    /\ ret.val = FALSE

\* C4: add_continuation with a base_run that is not the index of an
\* existing run fails and adds no edge, called directly or through
\* link_run(..., continue_run=...).
C4_AddContinuationRejectsMissingBase ==
    [][(/\ ret'.op \in {"add_continuation", "link_run"}
        /\ ret'.base_run # None
        /\ ret'.base_run \notin run_idxs(runs))
       => (ret'.err # "none" /\ continuations' = continuations)]_vars

\* the transitive closure of a relation given as a set of pairs
RECURSIVE TransitiveClosure(_)
TransitiveClosure(R) ==
    LET step == R \cup {<<pq[1][1], pq[2][2]>> : pq \in {x \in R \X R : x[1][2] = x[2][1]}}
    IN IF step = R THEN R ELSE TransitiveClosure(step)

\* C5: the continuation edges form a forest: no run is the continuation_run
\* of two edges, and the edges contain no cycle (no edge (r, r) either).
C5_ContinuationsForest ==
    /\ \A i, j \in 1 .. Len(continuations) :
           continuations[i][1] = continuations[j][1] => i = j
    /\ \A e \in TransitiveClosure(Range(continuations)) : e[1] # e[2]

\* C6: run indices are assigned in creation order and never reused: each new
\* run gets the number of runs present before it, existing runs keep their
\* index, and the run indices are exactly 0 .. num_runs - 1.
C6_RunIndexAssignment ==
    /\ [](/\ runs = 0 .. (num_runs(runs) - 1)
          /\ run_order = [i \in 1 .. num_runs(runs) |-> i - 1])
    /\ [][/\ runs \subseteq runs'
          /\ IsPrefix(run_order, run_order')]_vars

C6_Witness ==
    /\ ret.op = "join"
    /\ ret.n_other = 2
    /\ num_runs(runs) = 3
    /\ run_order = <<0, 1, 2>>

(* ---------------------------------------------------------------------- *)
(* Properties of the settings store                                        *)
(* ---------------------------------------------------------------------- *)

\* C7: a field's feature shape (or dtype) is resolved at most once: setting
\* it over a stored declaration that is not deferred fails and leaves the
\* declaration unchanged; setting it over a deferred (None) declaration
\* succeeds, the field then reads back as declared, and a declared field
\* stays declared.
C7_ShapeResolvedOnce ==
    [][/\ (ret'.op = "set_field_feature_shape" /\ ret'.field_path \in DOMAIN shapes_grp) =>
            IF ~field_feature_shapes(shapes_grp)[ret'.field_path].none
            THEN ret'.err # "none" /\ shapes_grp' = shapes_grp
            ELSE /\ ret'.err = "none"
                 /\ field_feature_shapes(shapes_grp')[ret'.field_path] = Shape(ret'.shape)
       /\ (ret'.op = "set_field_feature_dtype" /\ ret'.field_path \in DOMAIN dtypes_grp) =>
            IF ~field_feature_dtypes(dtypes_grp)[ret'.field_path].none
            THEN ret'.err # "none" /\ dtypes_grp' = dtypes_grp
            ELSE /\ ret'.err = "none"
                 /\ field_feature_dtypes(dtypes_grp')[ret'.field_path] = Dtype(ret'.dtype)
       /\ \A fp \in DOMAIN shapes_grp :
            ~field_feature_shapes(shapes_grp)[fp].none =>
                fp \in DOMAIN shapes_grp' /\ ~field_feature_shapes(shapes_grp')[fp].none
       /\ \A fp \in DOMAIN dtypes_grp :
            ~field_feature_dtypes(dtypes_grp)[fp].none =>
                fp \in DOMAIN dtypes_grp' /\ ~field_feature_dtypes(dtypes_grp')[fp].none
      ]_vars

\* C8: adding a sparse-field flag for a path already in the sparse-field
\* list raises no error and leaves the list unchanged.
C8_DuplicateSparseFlagIsNoOp ==
    [][(ret'.op = "add_sparse_field_flag" /\ ret'.field_path \in Range(sparse_fields_ds))
       => (ret'.err = "none" /\ sparse_fields_ds' = sparse_fields_ds)]_vars

(* ---------------------------------------------------------------------- *)
(* Properties of the trajectory field read                                 *)
(* ---------------------------------------------------------------------- *)

\* the stored field a get_traj_field result was read from
ReadField == trajs[<<ret.run_idx, ret.traj_idx>>][ret.field_path]

\* the last operation read a stored sparse field, masked, over a list of frames
SparseMaskedRead ==
    /\ ret.op = "get_traj_field"
    /\ ret.masked
    /\ ~ret.frames.none
    /\ ret.field_path \in Range(sparse_fields_ds)
    /\ ret.field_path \in DOMAIN trajs[<<ret.run_idx, ret.traj_idx>>]
    /\ ReadField.kind = "group"

\* the result has one row per requested frame, the row of frame i is present
\* exactly when i is a stored sparse index, and a present row holds the
\* datum stored at the position of i in the sparse index list
RowsMatchFrames ==
    LET F == ret.frames.idxs
        S == ReadField.sparse_idxs
    IN /\ ret.err = "none"
       /\ Len(ret.val) = Len(F)
       /\ \A q \in 1 .. Len(F) :
            /\ ret.val[q].masked = (F[q] \notin Range(S))
            /\ F[q] \in Range(S) =>
                   ret.val[q].value = ReadField.data[CHOOSE p \in 1 .. Len(S) : S[p] = F[q]]

\* C9: a masked read of a sparse field over any list of frames F, in any
\* order, returns one row per requested frame; the row of frame i is present
\* exactly when i is in the sparse index list S and then holds the datum
\* stored at the position of i in S.
C9_SparseMaskedRead == SparseMaskedRead => RowsMatchFrames

\* C19: rows written at the sparse idxs {2,5,9} of a trajectory of 10
\* cycles read back, with frames=None and masked=True, as 10 rows of which
\* exactly rows 2, 5 and 9 are present, holding the written rows in that
\* order; in general row i of the full masked read is present exactly when
\* i is a stored sparse index, and then holds the row written for it.
C19_SparseRoundTrip ==
    (/\ ret.op = "get_traj_field"
     /\ ret.field_path = RMSD
     /\ ret.frames.none
     /\ ret.masked)
    => LET S == ReadField.sparse_idxs
           n_cycles == num_traj_frames(trajs, ret.run_idx, ret.traj_idx)
       IN /\ ret.err = "none"
          /\ Len(ret.val) = n_cycles
          /\ \A i \in 0 .. (n_cycles - 1) : ret.val[i + 1].masked = (i \notin Range(S))
          /\ \A p \in 1 .. Len(S) : ret.val[S[p] + 1] = Present(ReadField.data[p])
          /\ (S = <<2, 5, 9>> /\ n_cycles = 10) =>
                 /\ Len(ret.val) = 10
                 /\ {i \in 0 .. 9 : ~ret.val[i + 1].masked} = {2, 5, 9}
                 /\ <<ret.val[3].value, ret.val[6].value, ret.val[10].value>> = ReadField.data

C19_Witness ==
    /\ ret.op = "get_traj_field"
    /\ ret.frames.none
    /\ ret.masked
    /\ num_traj_frames(trajs, 0, 0) = 10
    /\ trajs[<<0, 0>>][RMSD].sparse_idxs = <<2, 5, 9>>
    /\ trajs[<<0, 0>>][RMSD].data = <<1, 2, 1>>
    /\ ret.val[3] = Present(1)
    /\ ret.val[6] = Present(2)
    /\ ret.val[10] = Present(1)
    /\ ret.val[1] = Absent

(* ---------------------------------------------------------------------- *)
(* Properties of extend_traj                                               *)
(* ---------------------------------------------------------------------- *)

\* the number of stored rows of a field of a trajectory group (none for a
\* field the group does not hold) and of its sparse index list
FieldRows(traj_grp, fp) == IF fp \in DOMAIN traj_grp THEN traj_grp[fp].data ELSE << >>
FieldIdxs(traj_grp, fp) == IF fp \in DOMAIN traj_grp THEN traj_grp[fp].sparse_idxs ELSE << >>

\* C16: after extend_traj appends data of m new rows, every field in the
\* data has m more frames (a sparse field m more data rows and m more
\* idxs), and the rows stored before read back unchanged, in the same
\* positions, under a full read.
C16_ExtendGrowsByM ==
    [][\A key \in DOMAIN trajs : \A fp \in FieldPaths : \A masked \in BOOLEAN :
        (/\ ret'.op = "extend_traj"
         /\ ret'.err = "none"
         /\ <<ret'.run_idx, ret'.traj_idx>> = key
         /\ fp \in Range(ret'.items))
        => LET m == ret'.n_new_frames
               before == traj_field(trajs[key], fp, NoList, masked)
               after == traj_field(trajs[key], fp, NoList, masked)'
           IN /\ fp \in DOMAIN trajs'[key]
              /\ Len(FieldRows(trajs'[key], fp)) = Len(FieldRows(trajs[key], fp)) + m
              /\ IsPrefix(FieldRows(trajs[key], fp), FieldRows(trajs'[key], fp))
              /\ trajs'[key][fp].kind = "group" =>
                     /\ Len(FieldIdxs(trajs'[key], fp)) = Len(FieldIdxs(trajs[key], fp)) + m
                     /\ IsPrefix(FieldIdxs(trajs[key], fp), FieldIdxs(trajs'[key], fp))
              /\ after.err = "none"
              /\ before.err = "none" => IsPrefix(before.val, after.val)]_vars

C16_Witness ==
    /\ ret.op = "extend_traj"
    /\ ret.err = "none"
    /\ ret.items = <<POSITIONS, TIME, RMSD>>
    /\ ret.n_new_frames = 2
    /\ <<0, 0>> \in DOMAIN trajs
    /\ RMSD \in DOMAIN trajs[<<0, 0>>]
    /\ TIME \in DOMAIN trajs[<<0, 0>>]
    /\ trajs[<<0, 0>>][RMSD].kind = "group"
    /\ trajs[<<0, 0>>][RMSD].sparse_idxs = <<0, 1, 2>>
    /\ trajs[<<0, 0>>][RMSD].data = <<1, 2, 1>>

\* C17: every dense field of a trajectory has as many frames as the
\* positions of the trajectory (its cycle count), after any sequence of
\* successful add_traj and extend_traj calls.
C17_DenseFramesMatchCycles ==
    \A key \in DOMAIN trajs :
        POSITIONS \in DOMAIN trajs[key] =>
            \A fp \in DOMAIN trajs[key] :
                trajs[key][fp].kind = "dataset" =>
                    Len(trajs[key][fp].data) = num_traj_frames(trajs, key[1], key[2])

RECURSIVE ContinualRecords(_, _, _)
ContinualRecords(rest, run_record_key, offset) ==
    IF rest = << >> THEN << >>
    ELSE LET rows == records_grps[<<Head(rest), run_record_key>>].columns[FIELD]
         IN [i \in 1 .. Len(rows) |-> <<(i - 1) + offset, rows[i][1]>>]
            \o ContinualRecords(Tail(rest), run_record_key,
                                offset + num_run_cycles(trajs, Head(rest)))

\* C10: reading the records of the continual group (progress) of a run
\* returns one record per stored row, in row order, with cycle_idx the row
\* position; over a contig of several runs the cycle_idx of the later runs
\* is offset by the cycle counts of the runs before them.
C10_ContinualRecordsRead ==
    (/\ ret.op = "run_contig_records"
     /\ ret.key = PROGRESS
     /\ record_fields_grp[PROGRESS] = <<FIELD>>)
    => (/\ ret.err = "none"
        /\ ret.val = ContinualRecords(ret.run_idxs, PROGRESS, 0))

\* C11: run_contig_resampling_panel on a valid contig returns, built from
\* the contig's resampling records, without an error; run_resampling_panel
\* does the same for the contig of one run.
C11_ResamplingPanelReturns ==
    (/\ ret.op \in {"run_contig_resampling_panel", "run_resampling_panel"}
     /\ is_run_contig(continuations, ret.run_idxs))
    => (/\ ret.err = "none"
        /\ ret.records = resampling_records(ret.run_idxs).val)

RECURSIVE SporadicRecords(_, _, _)
SporadicRecords(rest, run_record_key, offset) ==
    IF rest = << >> THEN << >>
    ELSE LET grp == records_grps[<<Head(rest), run_record_key>>]
         IN [i \in 1 .. Len(grp.cycle_idxs) |->
                <<grp.cycle_idxs[i] + offset, grp.columns[FIELD][i][1]>>]
            \o SporadicRecords(Tail(rest), run_record_key,
                               offset + Len(trajs[<<Head(rest), 0>>][POSITIONS].data))

C20_ContigTraceFields ==
    (/\ ret.op = "get_contig_trace_fields"
     /\ ret.contig_trace # << >>)
    => LET trace == ret.contig_trace
           n_trajs == num_run_trajs(trajs, 0)
       IN /\ ret.err = "none"
          /\ \A field \in ret.fields :
                /\ Len(ret.val[field]) = Len(trace)
                /\ \A k \in 1 .. Len(trace) :
                      /\ Len(ret.val[field][k]) = n_trajs
                      /\ \A t \in 0 .. (n_trajs - 1) :
                            ret.val[field][k][t + 1] =
                                Present(trajs[<<trace[k][1], t>>][field].data[trace[k][2] + 1])
          /\ (/\ num_run_cycles(trajs, 0) = 5
              /\ num_run_cycles(trajs, 1) = 3
              /\ n_trajs = 4
              /\ Len(trace) = 8)
             => /\ Len(ret.val[POSITIONS]) = 8
                /\ \A k \in 0 .. 7 : \A t \in 0 .. 3 :
                       ret.val[POSITIONS][k + 1][t + 1] =
                           Present(IF k <= 4 THEN FrameValue(0, t, k)
                                   ELSE FrameValue(1, t, k - 5))

C20_Witness ==
    /\ ret.op = "get_contig_trace_fields"
    /\ ret.err = "none"
    /\ num_run_cycles(trajs, 0) = 5
    /\ num_run_cycles(trajs, 1) = 3
    /\ num_run_trajs(trajs, 0) = 4
    /\ Len(ret.contig_trace) = 8
    /\ Len(ret.val[POSITIONS]) = 8
    /\ Len(ret.val[POSITIONS][1]) = 4
    /\ ret.val[POSITIONS][5][1] = Present(FrameValue(0, 0, 4))
    /\ ret.val[POSITIONS][6][4] = Present(FrameValue(1, 3, 0))

(* ---------------------------------------------------------------------- *)
(* Properties of the open modes                                            *)
(* ---------------------------------------------------------------------- *)
\* the mutating operations
MutatingOps == {"new_run", "add_traj", "extend_traj", "add_continuation",
                "extend_cycle_run_group_records"}

\* C14: on an archive constructed in mode 'r', every mutating operation
\* (new_run, add_traj, extend_traj, add_continuation, record extension) is
\* an error and leaves the stored data unchanged, whether the handle was
\* opened with open() or entered as a context manager.
C14_ReadOnlyPermitsNoWrite ==
    [][(handle.wepy_mode = "r" /\ ret'.op \in MutatingOps)
           => /\ ret'.err # "none"
              /\ UNCHANGED <<graph_vars, settings_vars, data_vars>>]_vars

\* C15: the constructor in mode 'a', given a topology, on a path where no
\* file exists leaves the archive _create_init writes (runs group, settings,
\* empty continuation list); on a path where an archive exists it returns a
\* read-write object and leaves the archive as it was.
C15_AddModeCreatesOrOpens ==
    [][(handle = NoHandle /\ ret'.op = "__init__" /\ ret'.mode = "a"
            /\ ret'.topology = "given")
           => /\ ret'.err = "none"
              /\ handle'.h5py_mode = "r+"
              /\ file' = "archive"
              /\ IF file = "absent"
                 THEN create_init(<< >>)
                 ELSE file = "archive"
                      => UNCHANGED <<graph_vars, settings_vars, data_vars>>]_vars

(* ---------------------------------------------------------------------- *)
(* Properties of link_file_runs                                            *)
(* ---------------------------------------------------------------------- *)
\* C21: link_file_runs mounts run i of the other archive, for i in the
\* other archive's order, at the local index (runs before the call) + i,
\* and appends to the continuations exactly the other archive's edges, in
\* their order, each (c, b) as (local index of c, local index of b).
C21_LinkFileRuns ==
    [][(ret'.op = "link_file_runs" /\ ret'.err = "none")
           => LET n_before == num_runs(runs)
                  n_other == Len(ret'.links)
                  local(ext_run_idx) == n_before + ext_run_idx
              IN /\ ret'.links = [i \in 1 .. n_other |-> <<i - 1, local(i - 1)>>]
                 /\ ret'.new_run_idxs = [i \in 1 .. n_other |-> local(i - 1)]
                 /\ runs' = runs \cup {local(i - 1) : i \in 1 .. n_other}
                 /\ run_order' = run_order \o ret'.new_run_idxs
                 /\ continuations' = continuations \o
                        [i \in 1 .. Len(ret'.other_conts) |->
                            <<local(ret'.other_conts[i][1]),
                              local(ret'.other_conts[i][2])>>]]_vars

\* an archive that held runs and edges has mounted two runs and the edge
\* between them
C21_Witness ==
    /\ ret.op = "link_file_runs"
    /\ ret.err = "none"
    /\ Len(ret.links) = 2
    /\ ret.links[1][2] > 0
    /\ ret.other_conts = <<<<1, 0>>>>
    /\ Len(continuations) > 1
    /\ continuations[Len(continuations)] = <<ret.new_run_idxs[2], ret.new_run_idxs[1]>>

(* ---------------------------------------------------------------------- *)
(* Properties of add_run_observable                                        *)
(* ---------------------------------------------------------------------- *)
\* C22: add_run_observable with data for every trajectory of the run, no
\* trajectory's data longer than the run's cycles and the field not yet
\* stored, is rejected with nothing written when some trajectory's data is
\* shorter than the cycles and either no sparse idxs are given or the number
\* given for that trajectory differs from its frames; it is accepted when
\* the counts match.
C22_RunFieldFrameCount ==
    [][(/\ ret'.op = "add_run_observable"
        /\ ret'.n_trajs = num_run_trajs(trajs, 0)
        /\ \A k \in DOMAIN trajs : ret'.field_path \notin DOMAIN trajs[k]
        /\ \A i \in 1 .. ret'.n_trajs : ret'.n_frames[i] <= num_run_cycles(trajs, 0))
           => LET n_cycles == num_run_cycles(trajs, 0)
                  given == ret'.n_sparse_idxs
                  mismatch(i) == given.none \/ given.idxs[i] # ret'.n_frames[i]
                  rejected == \E i \in 1 .. ret'.n_trajs :
                                  ret'.n_frames[i] < n_cycles /\ mismatch(i)
                  matching == \A i \in 1 .. ret'.n_trajs :
                                  IF given.none THEN ret'.n_frames[i] = n_cycles
                                  ELSE given.idxs[i] = ret'.n_frames[i]
              IN /\ rejected => ret'.err # "none" /\ trajs' = trajs
                 /\ matching => ret'.err = "none"]_vars

(* ---------------------------------------------------------------------- *)
(* Properties of the decision enumeration                                  *)
(* ---------------------------------------------------------------------- *)
\* C23: after init_run_resampling(run_idx, resampler) has returned, for any
\* run index run_idx, decision_enum(run_idx) returns the name-to-value
\* mapping of the resampler's decision enumeration.
C23_RunDecisionEnum ==
    [][\A run_idx \in RunArgs :
           (/\ ret'.op = "init_run_resampling"
            /\ ret'.err = "none"
            /\ ret'.run_idx = run_idx)
               => decision_enum(runs', decision_grps', run_idx)
                      = [err |-> "none", val |-> ret'.enum]]_vars


\* the field paths whose text starts with observables/
UnderObservables == {RMSD}
\* the field paths of the settings and of the extend_traj data
ExtendFieldPaths == FieldPaths \cup {CHARGES}

\* C24: extend_traj with a field nothing is declared for (no shape, no
\* dtype, no sparse flag) and the trajectory does not hold: a field under
\* observables/ is flagged sparse, gets the feature shape and dtype of the
\* written rows and holds the rows as a sparse field; any other field ends
\* the call with an error and is not stored.
C24_UndeclaredField ==
    [][\A fp \in ExtendFieldPaths :
        (/\ ret'.op = "extend_traj"
         /\ ret'.err \notin {"OSError", "KeyError"}
         /\ fp \in Range(ret'.items)
         /\ fp \notin DOMAIN shapes_grp
         /\ fp \notin DOMAIN dtypes_grp
         /\ fp \notin Range(sparse_fields_ds)
         /\ fp \notin DOMAIN trajs[<<ret'.run_idx, ret'.traj_idx>>])
        => LET key == <<ret'.run_idx, ret'.traj_idx>>
           IN IF fp \in UnderObservables
              THEN /\ ret'.err = "none"
                   /\ fp \in Range(sparse_fields_ds')
                   /\ fp \in DOMAIN shapes_grp'
                   /\ read_shape(shapes_grp'[fp]) = Shape(data_feature_shape(fp))
                   /\ fp \in DOMAIN dtypes_grp'
                   /\ read_dtype(dtypes_grp'[fp]) = Dtype(data_feature_dtype(fp))
                   /\ fp \in DOMAIN trajs'[key]
                   /\ trajs'[key][fp].kind = "group"
                   /\ Len(trajs'[key][fp].data) = ret'.n_new_frames
                   /\ Len(trajs'[key][fp].sparse_idxs) = ret'.n_new_frames
              ELSE /\ ret'.err = "ValueError"
                   /\ fp \notin DOMAIN trajs'[key]
                   /\ fp \notin Range(sparse_fields_ds')
                   /\ fp \notin DOMAIN shapes_grp'
                   /\ fp \notin DOMAIN dtypes_grp']_vars

\* an undeclared observable was registered and stored by extend_traj
C24_Witness ==
    /\ ret.op = "extend_traj"
    /\ ret.err = "none"
    /\ RMSD \in Range(ret.items)
    /\ sparse_fields_ds = <<RMSD>>
    /\ <<0, 0>> \in DOMAIN trajs
    /\ RMSD \in DOMAIN trajs[<<0, 0>>]
    /\ trajs[<<0, 0>>][RMSD] = SparseGroup(<<2, 1>>, <<1, 2>>)


\* C25: every field a trajectory stores is a (data, _sparse_idxs) group
\* exactly when its path is in the sparse-field list of the settings, and
\* the full read of get_traj_field of every stored field ends without an
\* error.
C25_StoredAgreesWithSparseList ==
    \A key \in DOMAIN trajs :
        \A fp \in DOMAIN trajs[key] \cap ExtendFieldPaths :
            /\ trajs[key][fp].kind = "group" <=> fp \in Range(sparse_fields_ds)
            /\ traj_field(trajs[key], fp, NoList, FALSE).err = "none"


\* C26: new_run with a continue_run that is no run index of the archive
\* ends with an error and changes nothing of the archive (no run, the same
\* run count, no continuation); with a continue_run b that is a run index
\* it creates the run n, n the run count before the call, and appends the
\* one continuation (n, b).
C26_NewRunContinue ==
    [][(ret'.op = "new_run" /\ ret'.base_run # None)
        => LET b == ret'.base_run
               n == num_runs(runs)
           IN IF b \notin run_idxs(runs)
              THEN /\ ret'.err = "ValueError"
                   /\ runs' = runs
                   /\ num_runs(runs') = n
                   /\ run_order' = run_order
                   /\ continuations' = continuations
                   /\ UNCHANGED <<settings_vars, data_vars>>
              ELSE /\ ret'.err = "none"
                   /\ ret'.run_idx = n
                   /\ n \notin runs
                   /\ runs' = runs \cup {n}
                   /\ num_runs(runs') = n + 1
                   /\ continuations' = Append(continuations, <<n, b>>)]_vars

\* new_run refused the run index 2 on an archive of two runs that holds a
\* continuation made by an earlier new_run
C26_Witness ==
    /\ ret.op = "new_run"
    /\ ret.err = "ValueError"
    /\ ret.base_run = 2
    /\ runs = {0, 1}
    /\ continuations = <<<<1, 0>>>>


\* C27: an add_traj that fails on the shape of its positions leaves the run
\* as it was: the run has as many trajectories as before the call and
\* holds no trajectory group at the index the call took.
C27_FailedAddTrajLeavesRun ==
    [][(ret'.op = "add_traj" /\ ret'.err = "AssertionError")
        => /\ num_run_trajs(trajs', ret'.run_idx) = num_run_trajs(trajs, ret'.run_idx)
           /\ <<ret'.run_idx, ret'.traj_idx>> \notin DOMAIN trajs'
           /\ trajs' = trajs]_vars


ExpectedReporterCalls(n_cycles) ==
    <<ReporterInit>> \o [k \in 1 .. n_cycles |-> ReporterReport(k - 1)] \o <<ReporterCleanup>>

\* C29: a run_simulation that returns has called the reporter with init
\* once, then report once per cycle with cycle_idx 0, 1, ..., n_cycles - 1
\* in this order, then cleanup once (and at no time anything that is not a
\* prefix of these calls); the walkers of the segment of every cycle after
\* the first are the walkers the resampler returned in the cycle before.
C29_ReporterCallsAndWalkers ==
    [][/\ sim'.pc = "done" => sim'.reporter = ExpectedReporterCalls(sim'.n_cycles)
       /\ sim'.pc \notin {"none", "constructed"} =>
              IsPrefix(sim'.reporter, ExpectedReporterCalls(sim'.n_cycles))
       /\ (sim.pc = "for" /\ sim'.pc = "warp_walkers" /\ sim.cycle_idx > 0)
              => sim'.segment_arg = sim.resampled_walkers]_vars

\* a simulation of two cycles returned, and its resampler returned in the
\* last cycle other walkers than the segment produced
C29_Witness ==
    /\ sim.pc = "done"
    /\ sim.n_cycles = 2
    /\ Len(sim.reporter) = 4
    /\ sim.segment_arg # sim.init_walkers
    /\ sim.resampled_walkers # sim.new_walkers

\* C30: the walkers handed to the resampler in a cycle are the walkers the
\* warp step of the cycle returned, and the walkers carried into the next
\* cycle are resampled from the warped walkers.
C30_ResamplerGetsWarpedWalkers ==
    [][/\ (sim.pc = "resample" /\ sim'.pc = "report")
              => sim'.resample_arg = sim.warped_walkers
       /\ (sim.pc = "report" /\ sim'.pc = "for")
              => Range(sim'.walkers) \subseteq Range(sim.warped_walkers)]_vars

====
